---- MODULE Spec2Model ----
(***************************************************************************)
(* NewsService (src/src/services/newsService.js): the cache-backed request *)
(* path getNews, the merge/rank engine processArticles, the cache gateway  *)
(* getCachedNews / cacheNews and the refresh scheduler                     *)
(* preloadAllSections / startBackgroundUpdates.                            *)
(*                                                                         *)
(* Conventions.  A JS string that the code inspects character by character *)
(* (title, description, url) is a sequence of one-character strings; the   *)
(* Hangul syllables of the keyword lists are written as their code points  *)
(* ("U+AE34").  A JS string that the code only compares or copies (source, *)
(* apiSource, language, a tag) is a TLA+ string; the Korean tags are       *)
(* romanised.  Time is counted in seconds.  A rating is counted in         *)
(* hundredths (3.0 is 300).                                                *)
(***************************************************************************)
EXTENDS Integers, Sequences, FiniteSets, TLC

VARIABLES
    cache,       \* the backend's store: cache key -> NoEntry or [val, ttl]
    backend,     \* the redis client: "open", or "closed" (no client, or !isOpen; a command in flight rejects)
    clock,       \* seconds since construction (Date.now())
    apis,        \* this.apis: which credentials are configured
    isUpdating,  \* this.isUpdating
    cycles,      \* the running preloadAllSections bodies
    clients,     \* the router's getNews(section) calls
    lastResp,    \* the call that returned last, with its response
    requests,    \* client requests made so far
    deliveries,  \* adapter requests that came back with articles so far
    fired,       \* timer callbacks run so far (setTimeout + setInterval)
    dropped,     \* timer callbacks that returned at the isUpdating guard
    lastCycle,   \* the event log of the refresh cycle that finished last
    fin,         \* input of the function under study (function specifications)
    fout,        \* its output
    fst          \* where the study of the function stands: "in", "out"; "put", "got" for the cache

vars == <<cache, backend, clock, apis, isUpdating, cycles, clients, lastResp,
          requests, deliveries, fired, dropped, lastCycle, fin, fout, fst>>

sysvars == <<cache, backend, clock, apis, isUpdating, cycles, clients, lastResp,
             requests, deliveries, fired, dropped, lastCycle>>

fnvars == <<fin, fout, fst>>

----------------------------------------------------------------------------
(* JS values *)

\* null and undefined where a character-sequence string is expected
NullV == <<"#null">>

UndefV == <<"#undefined">>

\* null and undefined where an atomic string is expected
NullS == "#null"

UndefS == "#undefined"

\* NaN, and undefined where a number is expected: a missing metric, an unparseable date
NaN == 0 - 1

Min(a, b) == IF a < b THEN a ELSE b

Max(a, b) == IF a > b THEN a ELSE b

\* JS truthiness of a character-sequence value: null, undefined and "" are falsy
Truthy(v) == v # NullV /\ v # UndefV /\ v # <<>>

\* String(v) as applied by the + operator
ToStr(v) ==
    IF v = NullV THEN <<"n", "u", "l", "l">>
    ELSE IF v = UndefV THEN <<"u", "n", "d", "e", "f", "i", "n", "e", "d">>
    ELSE v

UpperCase == <<"A", "B", "C", "D", "E", "F", "G", "H", "I", "J", "K", "L", "M",
               "N", "O", "P", "Q", "R", "S", "T", "U", "V", "W", "X", "Y", "Z">>

LowerCase == <<"a", "b", "c", "d", "e", "f", "g", "h", "i", "j", "k", "l", "m",
               "n", "o", "p", "q", "r", "s", "t", "u", "v", "w", "x", "y", "z">>

LowerChar(c) ==
    IF \E i \in 1..Len(UpperCase) : UpperCase[i] = c
    THEN LowerCase[CHOOSE i \in 1..Len(UpperCase) : UpperCase[i] = c]
    ELSE c

\* String.prototype.toLowerCase
ToLowerCase(s) == [i \in 1..Len(s) |-> LowerChar(s[i])]

\* String.prototype.substring(0, n)
Substring0(s, n) == SubSeq(s, 1, Min(Len(s), n))

\* String.prototype.includes
Includes(text, pat) ==
    \E i \in 1..(Len(text) - Len(pat) + 1) : SubSeq(text, i, i + Len(pat) - 1) = pat

\* [...new Set(seq)]: the first occurrence of each element, in order
RECURSIVE SetOrder(_)
SetOrder(s) ==
    IF s = <<>> THEN <<>>
    ELSE LET init == SetOrder(SubSeq(s, 1, Len(s) - 1))
             last == s[Len(s)]
         IN  IF \E i \in 1..Len(init) : init[i] = last THEN init ELSE Append(init, last)

\* Array.prototype.slice(0, n)
Slice0(s, n) == SubSeq(s, 1, Min(Len(s), n))

Range(s) == {s[i] : i \in 1..Len(s)}

----------------------------------------------------------------------------
(* Keyword lists of calculateRating and generateTags *)

KwBreaking == <<"b", "r", "e", "a", "k", "i", "n", "g">>

KwUrgent == <<"u", "r", "g", "e", "n", "t">>

\* U+AE34 U+AE09 (gin-geup, "urgent")
KwGingeup == <<"U+AE34", "U+AE09">>

KwImportant == <<"i", "m", "p", "o", "r", "t", "a", "n", "t">>

KwMajor == <<"m", "a", "j", "o", "r">>

\* U+C911 U+C694 (jung-yo, "important")
KwJungyo == <<"U+C911", "U+C694">>

KwTrending == <<"t", "r", "e", "n", "d", "i", "n", "g">>

KwViral == <<"v", "i", "r", "a", "l">>

\* (article.title + ' ' + article.description).toLowerCase()
ArticleText(article) ==
    ToLowerCase(ToStr(article.title) \o <<" ">> \o ToStr(article.description))

\* (Date.now() - new Date(article.publishedAt)) in seconds; NaN for an invalid date
AgeSeconds(article, now) ==
    IF article.publishedAt = NaN THEN NaN ELSE now - article.publishedAt

\* an age limit that takes in the limit itself: hoursSincePublished <= h
AgeUpToHours(article, now, h) ==
    /\ article.publishedAt # NaN
    /\ AgeSeconds(article, now) <= h * 3600

\* hoursSincePublished < h; every comparison with NaN is false
AgeBelowHours(article, now, h) ==
    /\ article.publishedAt # NaN
    /\ AgeSeconds(article, now) < h * 3600

----------------------------------------------------------------------------
(* Articles.  A raw article carries title, description, url, publishedAt,  *)
(* source, language, apiSource and metrics; urlToImage and content are     *)
(* copied through by every step and never read, and are left out.  pos is  *)
(* the article's position in the sequence handed to processArticles: it    *)
(* stands for the identity of the JS object.                               *)

NoMetrics == [present |-> FALSE, retweet_count |-> NaN, like_count |-> NaN]

Metrics(rt, like) == [present |-> TRUE, retweet_count |-> rt, like_count |-> like]

\* a + b on numbers where NaN (or undefined) poisons the sum
NumAdd(a, b) == IF a = NaN \/ b = NaN THEN NaN ELSE a + b

\* a > b on numbers; false when a is NaN
NumGreater(a, b) == a # NaN /\ a > b

\* Math.round(rating * 10) / 10, on hundredths
RoundToTenth(r) == ((r + 5) \div 10) * 10

\* the clamp without its upper limit
ClampRatingBelowOnly(r) == Max(100, r)

\* Math.min(5.0, Math.max(1.0, x)), on hundredths
ClampRating(r) == Min(500, Max(100, r))

calculateRating(article, now) ==
    LET text == ArticleText(article)
        engagement == NumAdd(article.metrics.retweet_count, article.metrics.like_count)
        r0 == 300
        r1 == r0 + (IF article.apiSource = "NewsAPI" THEN 30 ELSE 0)
        r2 == r1 + (IF article.apiSource = "Naver" THEN 50 ELSE 0)
        r3 == r2 + (IF article.apiSource = "X" THEN 70 ELSE 0)
        r4 == r3 + (IF AgeBelowHours(article, now, 2) THEN 80
                    ELSE IF AgeBelowHours(article, now, 6) THEN 40
                    ELSE IF AgeBelowHours(article, now, 24) THEN 20
                    ELSE 0)
        r5 == r4 + (IF Includes(text, KwBreaking) \/ Includes(text, KwUrgent)
                       \/ Includes(text, KwGingeup) THEN 100 ELSE 0)
        r6 == r5 + (IF Includes(text, KwImportant) \/ Includes(text, KwMajor)
                       \/ Includes(text, KwJungyo) THEN 60 ELSE 0)
        r7 == r6 + (IF article.metrics.present /\ NumGreater(engagement, 1000)
                    THEN 50 ELSE 0)
        r8 == r7 + (IF article.metrics.present /\ NumGreater(engagement, 10000)
                    THEN 80 ELSE 0)
    IN  ClampRating(RoundToTenth(r8))

\* the section's default tag (romanised): gukje, hanguk, ilbon, gisul, gyeongje, beojeu
SectionTag(section) ==
    CASE section = "world" -> <<"gukje">>
      [] section = "kr" -> <<"hanguk">>
      [] section = "japan" -> <<"ilbon">>
      [] section = "tech" -> <<"gisul">>
      [] section = "business" -> <<"gyeongje">>
      [] section = "buzz" -> <<"beojeu">>
      [] OTHER -> <<>>

\* tags.slice(0, 4), without the Set
FirstFourWithRepeats(tags) == Slice0(tags, 4)

\* a cap of five tags
UniqueFirstFive(tags) == Slice0(SetOrder(tags), 5)

\* [...new Set(tags)].slice(0, 4)
UniqueFirstFour(tags) == Slice0(SetOrder(tags), 4)

\* tags: silsigan (real time), haeoe (abroad), gungnae (domestic), gingeup
\* (urgent), jungyo (important), Hot, banggeum (just now)
generateTags(article, section, now) ==
    LET text == ArticleText(article)
        tags == <<article.source>>
                \o SectionTag(section)
                \o (IF article.apiSource = "X" THEN <<"silsigan">> ELSE <<>>)
                \o (IF article.apiSource = "NewsAPI" THEN <<"haeoe">> ELSE <<>>)
                \o (IF article.apiSource = "Naver" THEN <<"gungnae">> ELSE <<>>)
                \o (IF Includes(text, KwBreaking) \/ Includes(text, KwGingeup)
                    THEN <<"gingeup">> ELSE <<>>)
                \o (IF Includes(text, KwImportant) \/ Includes(text, KwJungyo)
                    THEN <<"jungyo">> ELSE <<>>)
                \o (IF Includes(text, KwTrending) \/ Includes(text, KwViral)
                    THEN <<"Hot">> ELSE <<>>)
                \o (IF AgeBelowHours(article, now, 2) THEN <<"banggeum">> ELSE <<>>)
    IN  UniqueFirstFour(tags)

\* the key without toLowerCase
DedupKeyCaseSensitive(article) == Substring0(article.title, 50)

\* article.title.toLowerCase().substring(0, 50)
DedupKey(article) == Substring0(ToLowerCase(article.title), 50)

\* article.title.toLowerCase() raises a TypeError on null and undefined
TitleThrows(article) == article.title \in {NullV, UndefV}

\* the result of a call that may throw
Ok(v) == [ok |-> TRUE, val |-> v]

Thrown == [ok |-> FALSE, val |-> <<>>]

\* the filter callback: the key was not seen at an earlier index
FirstWithKey(articles, i) ==
    \A j \in 1..(i - 1) : DedupKey(articles[j]) # DedupKey(articles[i])

\* Array.prototype.filter with a callback that reads the index's article
FilterByIndex(articles, keep(_, _)) ==
    LET kept == SelectSeq([i \in 1..Len(articles) |-> i], LAMBDA i : keep(articles, i))
    IN  [k \in 1..Len(kept) |-> articles[kept[k]]]

removeDuplicates(articles) ==
    IF \E i \in 1..Len(articles) : TitleThrows(articles[i])
    THEN Thrown
    ELSE Ok(FilterByIndex(articles, FirstWithKey))

\* article => article.title && article.url
HasTitleAndUrl(article) == Truthy(article.title) /\ Truthy(article.url)

\* (a, b) => new Date(b.publishedAt) - new Date(a.publishedAt); a NaN result counts as 0
CompareByDate(a, b) ==
    IF a.publishedAt = NaN \/ b.publishedAt = NaN THEN 0
    ELSE b.publishedAt - a.publishedAt

\* x placed into the sorted sequence s behind every element that does not compare above it
RECURSIVE InsertSorted(_, _)
InsertSorted(s, x) ==
    IF s = <<>> THEN <<x>>
    ELSE IF CompareByDate(s[Len(s)], x) > 0
         THEN Append(InsertSorted(SubSeq(s, 1, Len(s) - 1), x), s[Len(s)])
         ELSE Append(s, x)

\* Array.prototype.sort with CompareByDate (stable), for a sequence on which
\* CompareByDate is a consistent comparator
RECURSIVE SortByDate(_)
SortByDate(s) ==
    IF s = <<>> THEN <<>>
    ELSE InsertSorted(SortByDate(SubSeq(s, 1, Len(s) - 1)), s[Len(s)])

\* the high four bits of an ASCII character's code
HighNibble(c) ==
    IF c \in {" ", "!", "#", "$", "%", "&", "(", ")", "*", "+", ",", "-", ".", "/"} THEN 2
    ELSE IF c \in {"0", "1", "2", "3", "4", "5", "6", "7", "8", "9", ":", ";", "<",
                   "=", ">", "?"} THEN 3
    ELSE IF c \in {"@", "A", "B", "C", "D", "E", "F", "G", "H", "I", "J", "K", "L",
                   "M", "N", "O"} THEN 4
    ELSE IF c \in {"P", "Q", "R", "S", "T", "U", "V", "W", "X", "Y", "Z", "_"} THEN 5
    ELSE IF c \in {"a", "b", "c", "d", "e", "f", "g", "h", "i", "j", "k", "l",
                   "m", "n", "o"} THEN 6
    ELSE 7

\* Buffer.from(url).toString('base64').substring(0, 10): ten base64 digits hold
\* the first seven bytes and the high four bits of the eighth
Base64Id(url) ==
    IF Len(url) < 8 THEN [bytes |-> url, nibble |-> NaN]
    ELSE [bytes |-> SubSeq(url, 1, 7), nibble |-> HighNibble(url[8])]

\* formatTimeAgo: the label's unit and number
formatTimeAgo(publishedAt, now) ==
    LET diff == now - publishedAt
    IN  IF publishedAt = NaN THEN [unit |-> "unknown", n |-> 0]
        ELSE IF diff < 60 THEN [unit |-> "now", n |-> 0]
        ELSE IF diff \div 60 < 60 THEN [unit |-> "minutes", n |-> diff \div 60]
        ELSE IF diff \div 3600 < 24 THEN [unit |-> "hours", n |-> diff \div 3600]
        ELSE IF diff \div 86400 < 7 THEN [unit |-> "days", n |-> diff \div 86400]
        ELSE [unit |-> "date", n |-> publishedAt \div 86400]

\* a display copy that marks the text of an article that is not Korean as translated
DisplayCopyTranslated(language, text) ==
    IF language = "ko" THEN text ELSE <<"U+BC88", "U+C5ED">> \o text

\* article.language === 'ko' ? text : text (lines 488-489): both branches of
\* the conditional are the article's own text
DisplayCopy(language, text) == IF language = "ko" THEN text ELSE text

\* the map callback of processArticles
Enhance(article, section, now) ==
    [title |-> article.title,
     description |-> article.description,
     url |-> article.url,
     publishedAt |-> article.publishedAt,
     source |-> article.source,
     language |-> article.language,
     apiSource |-> article.apiSource,
     metrics |-> article.metrics,
     pos |-> article.pos,
     id |-> Base64Id(article.url),
     timeAgo |-> formatTimeAgo(article.publishedAt, now),
     rating |-> calculateRating(article, now),
     tags |-> generateTags(article, section, now),
     titleKo |-> DisplayCopy(article.language, article.title),
     descriptionKo |-> DisplayCopy(article.language, article.description)]

processArticles(articles, section, now) ==
    LET unique == removeDuplicates(articles)
    IN  IF ~unique.ok THEN Thrown
        ELSE LET sorted == SortByDate(SelectSeq(unique.val, HasTitleAndUrl))
             IN  Ok([i \in 1..Len(sorted) |-> Enhance(sorted[i], section, now)])

----------------------------------------------------------------------------
(* Bounds of the model *)

\* client requests in one behaviour
MaxRequests == 1

\* timer callbacks (setTimeout and setInterval together) in one behaviour of Spec
MaxTriggers == 1

\* timer callbacks in one behaviour of SpecSched
MaxSchedTriggers == 3

\* clock steps in one behaviour
MaxTicks == 1

\* client calls in flight at once
MaxClients == 1

\* adapter requests that come back with articles in one behaviour; the others
\* fail or come back empty
MaxDeliveries == 2

\* client requests, one after the other, in one behaviour of SpecPaged
MaxPagedRequests == 2

----------------------------------------------------------------------------
(* Section routing *)

\* the sections of preloadAllSections, in its order
KnownSections == <<"world", "kr", "japan", "tech", "business", "buzz">>

\* a section name the switch of getNews does not know
UnknownSection == "sports"

\* a section name that is also a property every object inherits from Object.prototype
InheritedSection == "constructor"

AllSections == Range(KnownSections) \cup {UnknownSection, InheritedSection}

Adapter(api, arg) == [api |-> api, arg |-> arg]

\* keyed providers asked whether or not their credential is configured
PrimaryAdaptersUnchecked(section, creds) ==
    CASE section = "world" -> <<Adapter("NewsAPI", "general")>>
      [] section = "kr" -> <<Adapter("Naver", "news")>>
      [] section = "japan" -> <<Adapter("NewsAPI", "general-jp")>>
      [] section = "tech" -> <<Adapter("NewsAPI", "technology")>>
      [] section = "business" -> <<Adapter("NewsAPI", "business")>>
      [] section = "buzz" -> <<Adapter("X", "recent"), Adapter("NewsAPI", "entertainment")>>
      [] OTHER -> <<Adapter("NewsAPI", "general")>>

\* fetchWorldNews ... fetchBuzzNews: the keyed providers a section asks, in
\* order, each behind its credential check
PrimaryAdapters(section, creds) ==
    LET newsapi(category) ==
            IF creds.newsapi THEN <<Adapter("NewsAPI", category)>> ELSE <<>>
        naver == IF creds.naver THEN <<Adapter("Naver", "news")>> ELSE <<>>
        x == IF creds.x THEN <<Adapter("X", "recent")>> ELSE <<>>
    IN  CASE section = "world" -> newsapi("general")
          [] section = "kr" -> naver
          [] section = "japan" -> newsapi("general-jp")
          [] section = "tech" -> newsapi("technology")
          [] section = "business" -> newsapi("business")
          [] section = "buzz" -> x \o newsapi("entertainment")
          [] OTHER -> newsapi("general")

\* initializeRSSSources, read as this.rssSources[section] || []
RssSources(section) ==
    CASE section = "world" -> <<Adapter("RSS", "BBC"), Adapter("RSS", "Reuters")>>
      [] section = "kr" -> <<Adapter("RSS", "KBS")>>
      [] section = "japan" -> <<Adapter("RSS", "NHK"), Adapter("RSS", "Japan Times")>>
      [] OTHER -> <<>>

\* fetchRSSArticles: this.rssSources[section] || [] is, for a name every object
\* inherits, the inherited value (a function), and the for...of over it throws
\* before any feed is requested; the loop is outside the try of lines 419-430
RssIterationThrows(section) == section = InheritedSection

\* a getNews that asks the feeds before the keyed providers
PipelineFeedsFirst(section, creds) ==
    RssSources(section) \o PrimaryAdapters(section, creds)

\* the requests one getNews run sends, in order: keyed providers, then RSS feeds
Pipeline(section, creds) == PrimaryAdapters(section, creds) \o RssSources(section)

----------------------------------------------------------------------------
(* What the providers deliver *)

UrlPrefix == <<"h", "t", "t", "p", "s", ":", "/", "/">>

RawArticle(title, url, source, language, apiSource, metrics, publishedAt) ==
    [title |-> title, description |-> <<"d">>, url |-> url,
     publishedAt |-> publishedAt, source |-> source, language |-> language,
     apiSource |-> apiSource, metrics |-> metrics, pos |-> 0]

\* a well-formed article of the adapter, published when the service started
GoodArticle(adapter) ==
    CASE adapter.api = "NewsAPI" ->
            RawArticle(<<"N", "e", "w", "s">>, UrlPrefix \o <<"n">>, "CNN", "en",
                       "NewsAPI", NoMetrics, 0)
      [] adapter.api = "Naver" ->
            RawArticle(<<"N", "a", "v">>, UrlPrefix \o <<"v">>, "NaverNews", "ko",
                       "Naver", NoMetrics, 0)
      [] adapter.api = "X" ->
            RawArticle(<<"T", "w", "t">>, UrlPrefix \o <<"x">>, "X (Twitter)", "en",
                       "X", Metrics(600, 600), 0)
      [] OTHER ->
            RawArticle(<<"R", "s", "s">>, UrlPrefix \o <<"r">>, adapter.arg,
                       IF adapter.arg = "KBS" THEN "ko"
                       ELSE IF adapter.arg = "NHK" THEN "ja" ELSE "en",
                       "RSS", NoMetrics, 0)

\* NewsAPI hands title through unchecked: an article whose title is null
NullTitleArticle(adapter) == [GoodArticle(adapter) EXCEPT !.title = NullV]

\* the article sequences an adapter call can return; a timeout, a transport
\* error, a non-ok status and a payload that makes the adapter's own mapping
\* throw all end in the empty sequence
AdapterOutcomes(adapter) ==
    IF adapter.api = "NewsAPI"
    THEN {<<>>, <<GoodArticle(adapter)>>, <<NullTitleArticle(adapter)>>}
    ELSE {<<>>, <<GoodArticle(adapter)>>}

\* the adapter call failed: a timeout, a transport error, a non-ok status, a
\* payload its mapping cannot read
Failure == <<[failed |-> TRUE]>>

\* a getNews that appends whatever a feed answered
ContributionUncapped(adapter, delivered) ==
    IF delivered = Failure THEN <<>> ELSE delivered

\* what getNews appends for an answer.  A keyed provider's own catch turns a
\* failure into [] and the whole list is spread into articles; a feed's failure
\* is caught in the loop of fetchRSSArticles, which goes on to the next feed,
\* and of a feed's list articles.push(...rssArticles.slice(0, 5)) is kept
Contribution(adapter, delivered) ==
    IF delivered = Failure THEN <<>>
    ELSE IF adapter.api = "RSS" THEN Slice0(delivered, 5) ELSE delivered

\* a keyed provider's article that has no url
NoUrlArticle(adapter) == [GoodArticle(adapter) EXCEPT !.url = NullV]

\* item i of a feed that has several items, the later the item the older
FeedItem(adapter, i) ==
    LET digit == <<"1", "2", "3", "4", "5", "6">>[i]
    IN  [GoodArticle(adapter) EXCEPT !.title = @ \o <<digit>>,
                                     !.url = @ \o <<digit>>,
                                     !.publishedAt = 100 - 10 * i]

\* a feed's report of the story the section's keyed provider carries, its title
\* in capitals, published later
EchoArticle(adapter) ==
    [GoodArticle(adapter) EXCEPT
        !.title = IF adapter.arg = "KBS" THEN <<"N", "A", "V">>
                  ELSE <<"N", "E", "W", "S">>,
        !.url = @ \o <<"e">>,
        !.publishedAt = 100]

\* the articles NewsAPI is asked for in one request (pageSize: 20)
PageSize == 20

\* article i of a full page of a keyed provider, the later the article the older
PageItem(adapter, i) ==
    LET letter == <<"a", "b", "c", "d", "e", "f", "g", "h", "i", "j", "k", "l", "m",
                    "n", "o", "p", "q", "r", "s", "t">>[i]
    IN  [GoodArticle(adapter) EXCEPT !.title = @ \o <<letter>>,
                                     !.url = @ \o <<letter>>,
                                     !.publishedAt = 300 - i]

\* the answers told apart when aggregation is studied: a failure apart from an
\* empty answer, a feed with more items than getNews keeps, a feed that repeats
\* the keyed provider's story, a keyed provider's article without url
StudyOutcomes(adapter) ==
    AdapterOutcomes(adapter) \cup {Failure} \cup
    (IF adapter.api = "RSS"
     THEN {[i \in 1..6 |-> FeedItem(adapter, i)], <<EchoArticle(adapter)>>}
     ELSE IF adapter.api = "NewsAPI" THEN {<<NoUrlArticle(adapter)>>}
     ELSE {})

\* the answers told apart when the length of the response is studied: nothing,
\* a full page of NewsAPI or an article of it without title, a feed with more
\* items than getNews keeps
PagedOutcomes(adapter) ==
    IF adapter.api = "NewsAPI"
    THEN {<<>>, [i \in 1..PageSize |-> PageItem(adapter, i)], <<NullTitleArticle(adapter)>>}
    ELSE IF adapter.api = "RSS" THEN {<<>>, [i \in 1..6 |-> FeedItem(adapter, i)]}
    ELSE {<<>>, <<GoodArticle(adapter)>>}

----------------------------------------------------------------------------
(* Cache gateway *)

\* the TTL handed to client.setEx, in seconds
CACHE_TTL == 600

\* `news:${section}`
CacheKey(section) == <<"news", section>>

CacheKeys == {CacheKey(section) : section \in AllSections}

NoEntry == [present |-> FALSE, val |-> <<>>, ttl |-> 0]

\* the fields of an article that hold a character-sequence string
SeqFields == {"title", "description", "url", "titleKo", "descriptionKo"}

\* the fields of an article that hold an atomic string
StrFields == {"source", "language", "apiSource"}

\* JSON.stringify leaves out the properties whose value is undefined
DroppedFields(article) ==
    {f \in SeqFields \cap DOMAIN article : article[f] = UndefV}
    \cup {f \in StrFields \cap DOMAIN article : article[f] = UndefS}
    \cup (IF ~article.metrics.present THEN {"metrics"} ELSE {})

\* JSON.stringify writes an undefined array element as null
JsonArray(a) == [i \in 1..Len(a) |-> IF a[i] = UndefS THEN NullS ELSE a[i]]

JsonObject(article) ==
    [f \in (DOMAIN article) \ DroppedFields(article) |->
        IF f = "tags" THEN JsonArray(article[f]) ELSE article[f]]

\* JSON.stringify(articles)
JsonStringify(articles) == [i \in 1..Len(articles) |-> JsonObject(articles[i])]

EnhancedFields ==
    {"title", "description", "url", "publishedAt", "source", "language", "apiSource",
     "metrics", "pos", "id", "timeAgo", "rating", "tags", "titleKo", "descriptionKo"}

\* reading a property the parsed object does not have yields undefined
ParsedObject(o) ==
    [f \in EnhancedFields |->
        IF f \in DOMAIN o THEN o[f]
        ELSE IF f \in SeqFields THEN UndefV
        ELSE IF f \in StrFields THEN UndefS
        ELSE NoMetrics]

\* JSON.parse(cached)
JsonParse(text) == [i \in 1..Len(text) |-> ParsedObject(text[i])]

\* what getCachedNews returns: null, or the parsed sequence
NullResult == [null |-> TRUE, val |-> <<>>]

\* getCachedNews: issued tells whether the client was open when the call was made
\* (else it returns null at once); the get is answered when be is still "open"
\* and rejects otherwise; a stored string is truthy
getCachedNews(store, key, issued, be) ==
    IF issued /\ be = "open" /\ store[key].present
    THEN [null |-> FALSE, val |-> JsonParse(store[key].val)]
    ELSE NullResult

\* a write that is served whatever the state of the client
cacheNewsUnguarded(store, key, articles, issued, be) ==
    [store EXCEPT ![key] =
        [present |-> TRUE, val |-> JsonStringify(articles), ttl |-> CACHE_TTL]]

\* a write that adds the articles to those the key holds
cacheNewsAppending(store, key, articles, issued, be) ==
    IF issued /\ be = "open"
    THEN [store EXCEPT ![key] =
            [present |-> TRUE, val |-> store[key].val \o JsonStringify(articles),
             ttl |-> CACHE_TTL]]
    ELSE store

\* a write whose TTL is 600 000, the ten minutes in milliseconds
cacheNewsMillis(store, key, articles, issued, be) ==
    IF issued /\ be = "open"
    THEN [store EXCEPT ![key] =
            [present |-> TRUE, val |-> JsonStringify(articles), ttl |-> 1000 * 600]]
    ELSE store

\* cacheNews: client.setEx(cacheKey, 600, JSON.stringify(articles)); nothing is
\* written when the client was not open or the command rejects
cacheNews(store, key, articles, issued, be) ==
    IF issued /\ be = "open"
    THEN [store EXCEPT ![key] =
            [present |-> TRUE, val |-> JsonStringify(articles), ttl |-> CACHE_TTL]]
    ELSE store

\* !client || !client.isOpen is false: the command is sent
ClientOpen(be) == be # "closed"

----------------------------------------------------------------------------
(* Responses of getNews *)

\* mockData.world
MockWorld(now) ==
    <<[title |-> <<"G", "l", "o", "b", "a", "l">>,
       description |-> <<"W", "o", "r", "l", "d">>,
       url |-> UrlPrefix \o <<"e", "x", "a", "m", "p", "l", "e">>,
       publishedAt |-> now - 7200,
       source |-> "NewsAPI", language |-> "en", apiSource |-> "Mock",
       metrics |-> NoMetrics, pos |-> 0,
       id |-> [bytes |-> <<"m", "o", "c", "k", "_", "w", "o", "r", "l", "d", "_", "1">>,
               nibble |-> NaN],
       timeAgo |-> [unit |-> "hours", n |-> 2],
       rating |-> 450,
       tags |-> <<"gingeup", "hwangyeong", "NewsAPI">>,
       titleKo |-> <<"U+C138", "U+ACC4">>,
       descriptionKo |-> <<"U+C138", "U+ACC4", "U+C9C0">>]>>

\* getMockArticles: mockData[section] || mockData.world.  mockData is an object
\* literal with the one own property world; the lookup of a name it inherits
\* yields the inherited value (for "constructor" the function Object, which is
\* truthy, is no array, and has length 1); any other name yields undefined
getMockArticles(section, now) ==
    IF section = InheritedSection
    THEN [isArray |-> FALSE, items |-> <<>>, length |-> 1]
    ELSE [isArray |-> TRUE, items |-> MockWorld(now), length |-> Len(MockWorld(now))]

\* isArray: data.articles is an array (of the articles listed)
Response(section, articles, total, cached, mock, fallback) ==
    [success |-> TRUE, threw |-> FALSE, section |-> section, articles |-> articles,
     isArray |-> TRUE, total |-> total, cached |-> cached, mock |-> mock,
     fallback |-> fallback]

\* lines 68-77: the cache hit
CachedResponse(section, cached) ==
    Response(section, Slice0(cached, 20), Len(cached), TRUE, FALSE, FALSE)

\* a fresh result that lists every processed article
FreshResponseUncut(section, processed) ==
    Response(section, processed, Len(processed), FALSE, FALSE, FALSE)

\* lines 124-134: the fresh result
FreshResponse(section, processed) ==
    Response(section, Slice0(processed, 20), Len(processed), FALSE, FALSE, FALSE)

\* lines 143-153: the cache fallback of the catch block
FallbackResponse(section, cached) ==
    Response(section, Slice0(cached, 10), Len(cached), TRUE, FALSE, TRUE)

\* lines 160-171: the mock fallback of the catch block
MockResponse(section, now) ==
    LET mockArticles == getMockArticles(section, now)
    IN  [Response(section, mockArticles.items, mockArticles.length, FALSE, TRUE, TRUE)
            EXCEPT !.isArray = mockArticles.isArray]

\* an exception that leaves getNews: the promise rejects
Rejected(section) ==
    [success |-> FALSE, threw |-> TRUE, section |-> section, articles |-> <<>>,
     isArray |-> TRUE, total |-> 0, cached |-> FALSE, mock |-> FALSE, fallback |-> FALSE]

NoResponse ==
    [success |-> FALSE, threw |-> FALSE, section |-> "", articles |-> <<>>,
     isArray |-> TRUE, total |-> 0, cached |-> FALSE, mock |-> FALSE, fallback |-> FALSE]

----------------------------------------------------------------------------
(* One getNews run.  The code between two awaits on I/O runs without       *)
(* interruption, so a run is at one of: "cacheGet" (the get of line 65 is  *)
(* in flight), "fetch" (the request to adapter k of the pipeline is in     *)
(* flight), "cacheSet" (the setEx of line 121), "fallbackGet" (the get of  *)
(* line 141), "done" (returned).                                           *)

NewCall(section, useCache) ==
    [section |-> section, useCache |-> useCache, pc |-> "idle", k |-> 1,
     articles |-> <<>>, invoked |-> <<>>, answers |-> <<>>, processed |-> <<>>,
     issued |-> FALSE,
     reads |-> 0, resp |-> NoResponse]

IdleCall == NewCall("", FALSE)

Return(call, resp) == [call EXCEPT !.pc = "done", !.resp = resp]

\* the position each article has in the sequence handed to processArticles
WithPos(articles) == [i \in 1..Len(articles) |-> [articles[i] EXCEPT !.pos = i]]

\* a read that never counts as a hit
IsHitNever(result) == FALSE

\* a read that counts as a hit whenever a value is stored, an empty list too
IsHitWhenStored(result) == ~result.null

\* cached && cached.length > 0
IsHit(result) == ~result.null /\ Len(result.val) > 0

\* caching whatever came out, the empty result too
ShouldCacheAlways(processed) == TRUE

\* processedArticles.length > 0
ShouldCache(processed) == Len(processed) > 0

\* the catch block up to its await: getCachedNews is called, and returns null
\* at once when the client is not open
OnError(call, be, now) ==
    IF ClientOpen(be)
    THEN [call EXCEPT !.pc = "fallbackGet", !.issued = TRUE, !.reads = @ + 1]
    ELSE Return([call EXCEPT !.reads = @ + 1], MockResponse(call.section, now))

\* the catch block after its await
AfterFallbackGet(call, store, be, now) ==
    LET cached == getCachedNews(store, CacheKey(call.section), call.issued, be)
    IN  IF IsHit(cached) THEN Return(call, FallbackResponse(call.section, cached.val))
        ELSE Return(call, MockResponse(call.section, now))

\* lines 110-134 once the last request of the pipeline is answered, up to the
\* await of cacheNews; an exception of fetchRSSArticles or of processArticles is
\* caught by the try of getNews
Finish(call, be, now) ==
    LET After(processed) ==
            IF ~processed.ok THEN OnError(call, be, now)
            ELSE IF ShouldCache(processed.val) /\ ClientOpen(be)
            THEN [call EXCEPT !.pc = "cacheSet", !.processed = processed.val,
                              !.issued = TRUE]
            ELSE Return([call EXCEPT !.processed = processed.val],
                        FreshResponse(call.section, processed.val))
    IN  IF RssIterationThrows(call.section) THEN OnError(call, be, now)
        ELSE After(processArticles(WithPos(call.articles), call.section, now))

\* lines 124-134
AfterCacheSet(call) == Return(call, FreshResponse(call.section, call.processed))

\* lines 81-114: the first request of the pipeline, if there is one
BeginFetch(call, be, creds, now) ==
    IF Pipeline(call.section, creds) = <<>> THEN Finish(call, be, now)
    ELSE [call EXCEPT !.pc = "fetch", !.k = 1]

\* a getNews that gives up the remaining adapters once one of them fails
AfterFetchStopsOnFailure(call, delivered, be, creds, now) ==
    LET pipeline == Pipeline(call.section, creds)
        adapter == pipeline[call.k]
        next == [call EXCEPT !.articles = @ \o Contribution(adapter, delivered),
                             !.invoked = Append(@, adapter),
                             !.answers = Append(@, delivered),
                             !.k = @ + 1]
    IN  IF call.k < Len(pipeline) /\ delivered # Failure THEN next
        ELSE Finish(next, be, now)

\* the answer of adapter k has come: its articles are appended, and the next
\* adapter is asked whatever the answer was; answers keeps what each adapter
\* answered
AfterFetch(call, delivered, be, creds, now) ==
    LET pipeline == Pipeline(call.section, creds)
        adapter == pipeline[call.k]
        next == [call EXCEPT !.articles = @ \o Contribution(adapter, delivered),
                             !.invoked = Append(@, adapter),
                             !.answers = Append(@, delivered),
                             !.k = @ + 1]
    IN  IF call.k < Len(pipeline) THEN next ELSE Finish(next, be, now)

\* a getNews that fetches whatever its read of the cache finds
AfterCacheGetRefetching(call, store, be, creds, now) == BeginFetch(call, be, creds, now)

\* lines 63-79 after the await of getCachedNews
AfterCacheGet(call, store, be, creds, now) ==
    LET cached == getCachedNews(store, CacheKey(call.section), call.issued, be)
    IN  IF IsHit(cached) THEN Return(call, CachedResponse(call.section, cached.val))
        ELSE BeginFetch(call, be, creds, now)

\* a getNews that looks into the cache whatever useCache says
StartCallReading(section, useCache, be, creds, now) ==
    IF ClientOpen(be)
    THEN [NewCall(section, useCache) EXCEPT !.pc = "cacheGet", !.issued = TRUE, !.reads = 1]
    ELSE BeginFetch([NewCall(section, useCache) EXCEPT !.reads = 1], be, creds, now)

\* getNews(section, useCache) up to its first await on I/O
StartCall(section, useCache, be, creds, now) ==
    LET call == NewCall(section, useCache)
    IN  IF useCache /\ ClientOpen(be)
        THEN [call EXCEPT !.pc = "cacheGet", !.issued = TRUE, !.reads = 1]
        ELSE BeginFetch([call EXCEPT !.reads = IF useCache THEN 1 ELSE 0], be, creds, now)

\* the run resumes after its await
StepCall(call, delivered, store, be, creds, now) ==
    CASE call.pc = "cacheGet" -> AfterCacheGet(call, store, be, creds, now)
      [] call.pc = "fetch" -> AfterFetch(call, delivered, be, creds, now)
      [] call.pc = "cacheSet" -> AfterCacheSet(call)
      [] call.pc = "fallbackGet" -> AfterFallbackGet(call, store, be, now)

\* the store once the awaited command has been served
StoreAfter(call, store, be) ==
    IF call.pc = "cacheSet"
    THEN cacheNews(store, CacheKey(call.section), call.processed, call.issued, be)
    ELSE store

\* what the awaited request may deliver
Deliveries(call, creds, sofar) ==
    IF call.pc = "fetch" /\ sofar < MaxDeliveries
    THEN AdapterOutcomes(Pipeline(call.section, creds)[call.k])
    ELSE {<<>>}

\* what the awaited request may deliver when aggregation is studied
StudyDeliveries(call, creds, sofar) ==
    IF call.pc = "fetch" THEN StudyOutcomes(Pipeline(call.section, creds)[call.k])
    ELSE {<<>>}

\* what the awaited request may deliver: the answers of every run ("plain"),
\* those told apart when aggregation is studied ("study"), those told apart
\* when the length of the response is studied ("paged")
Answers(kind, call, creds, sofar) ==
    CASE kind = "study" -> StudyDeliveries(call, creds, sofar)
      [] kind = "paged" ->
            IF call.pc = "fetch" THEN PagedOutcomes(Pipeline(call.section, creds)[call.k])
            ELSE {<<>>}
      [] OTHER -> Deliveries(call, creds, sofar)

----------------------------------------------------------------------------
(* The refresh cycle *)

\* a guard that lets every trigger through
GuardNever(flag) == FALSE

\* if (this.isUpdating) return
GuardBlocks(flag) == flag

\* a loop that gives up once a section ends in the mock fallback
StopOnMock(resp) == ~resp.mock

\* the try/catch around each getNews of the loop: the loop goes on whatever the run did
ContinueAfter(resp) == TRUE

\* a cycle that leaves the flag set when one of its sections ended in the mock set
IsUpdatingLeftOnMock(log) == \E n \in 1..Len(log) : log[n][3] = "mock"

\* finally { this.isUpdating = false }: the flag once the cycle with this log is over
IsUpdatingAfter(log) == FALSE

NoCall == [by |-> "none", call |-> IdleCall]

\* which return statement of getNews produced the response
RespKind(resp) ==
    IF resp.threw THEN "rejected"
    ELSE IF resp.mock THEN "mock"
    ELSE IF resp.cached THEN "cached"
    ELSE "fresh"

Started(section) == <<"start", section, "">>

Ended(call) == <<"end", call.section, RespKind(call.resp)>>

\* the loop of preloadAllSections from section idx on, up to the next await on
\* I/O; log lists the runs begun and ended, last is the run that returned last
RECURSIVE RunFrom(_, _, _, _, _, _)
RunFrom(idx, log, last, be, creds, now) ==
    IF idx > Len(KnownSections)
    THEN [running |-> FALSE, idx |-> idx, call |-> IdleCall, log |-> log, last |-> last]
    ELSE LET section == KnownSections[idx]
             begun == Append(log, Started(section))
             After(call) ==
                 IF call.pc # "done"
                 THEN [running |-> TRUE, idx |-> idx, call |-> call, log |-> begun,
                       last |-> last]
                 ELSE IF ContinueAfter(call.resp)
                 THEN RunFrom(idx + 1, Append(begun, Ended(call)),
                              [by |-> "cycle", call |-> call], be, creds, now)
                 ELSE [running |-> FALSE, idx |-> idx, call |-> IdleCall,
                       log |-> Append(begun, Ended(call)),
                       last |-> [by |-> "cycle", call |-> call]]
         IN  After(StartCall(section, FALSE, be, creds, now))

\* the cycle after the run of its section idx has returned
ResumeCycle(cycle, done, be, creds, now) ==
    LET ended == Append(cycle.log, Ended(done))
        last == [by |-> "cycle", call |-> done]
    IN  IF ContinueAfter(done.resp)
        THEN RunFrom(cycle.idx + 1, ended, last, be, creds, now)
        ELSE [running |-> FALSE, idx |-> cycle.idx, call |-> IdleCall, log |-> ended,
              last |-> last]

RemoveAt(s, i) == SubSeq(s, 1, i - 1) \o SubSeq(s, i + 1, Len(s))

----------------------------------------------------------------------------
(* Actions *)

BackendStates == {"open", "closed"}

\* the credentials found in the environment: all of them, or none
CredentialConfigs ==
    {[newsapi |-> b, naver |-> b, x |-> b] : b \in BOOLEAN}

AllCredentials == [newsapi |-> TRUE, naver |-> TRUE, x |-> TRUE]

\* the sections a client asks for
ClientSections == {"world", "buzz", UnknownSection, InheritedSection}

\* the clock advances by a TTL
TickStep == CACHE_TTL

FnIdle == fin = <<>> /\ fout = <<>> /\ fst = "none"

\* the service after construction, with the given credentials
Constructed(creds) ==
    /\ cache = [key \in CacheKeys |-> NoEntry]
    /\ backend = "open"
    /\ clock = 0
    /\ apis = creds
    /\ isUpdating = FALSE
    /\ cycles = <<>>
    /\ clients = [c \in 1..MaxClients |-> IdleCall]
    /\ lastResp = NoCall
    /\ requests = 0
    /\ deliveries = 0
    /\ fired = 0
    /\ dropped = 0
    /\ lastCycle = <<>>

Init == (\E creds \in CredentialConfigs : Constructed(creds)) /\ FnIdle

\* the router calls newsService.getNews(section); max bounds the requests of a behaviour
ClientRequest(c, section, max) ==
    /\ requests < max
    /\ clients[c].pc = "idle"
    /\ requests' = requests + 1
    /\ \E call \in {StartCall(section, TRUE, backend, apis, clock)} :
           IF call.pc = "done"
           THEN /\ lastResp' = [by |-> "client", call |-> call]
                /\ clients' = clients
           ELSE /\ clients' = [clients EXCEPT ![c] = call]
                /\ lastResp' = lastResp
    /\ UNCHANGED <<cache, backend, clock, apis, isUpdating, cycles, deliveries, fired,
                   dropped, lastCycle, fnvars>>

\* the awaited I/O of client c's run completes; kind tells which answers the
\* adapters may give
ClientStep(c, kind) ==
    /\ clients[c].pc \notin {"idle", "done"}
    /\ \E delivered \in Answers(kind, clients[c], apis, deliveries) :
         \E call \in {StepCall(clients[c], delivered, cache, backend, apis, clock)} :
             /\ cache' = StoreAfter(clients[c], cache, backend)
             /\ deliveries' = deliveries + (IF Len(delivered) = 0 THEN 0 ELSE 1)
             /\ IF call.pc = "done"
                THEN /\ lastResp' = [by |-> "client", call |-> call]
                     /\ clients' = [clients EXCEPT ![c] = IdleCall]
                ELSE /\ clients' = [clients EXCEPT ![c] = call]
                     /\ lastResp' = lastResp
    /\ UNCHANGED <<backend, clock, apis, isUpdating, cycles, requests, fired, dropped,
                   lastCycle, fnvars>>

\* a timer callback calls preloadAllSections: the setTimeout callback (due
\* after 30 s) when initial, a setInterval callback (due every 600 s) otherwise;
\* timers run in the order they fall due, so the first callback is the initial one
Trigger(initial, max) ==
    /\ fired < max
    /\ initial = (fired = 0)
    /\ fired' = fired + 1
    /\ IF GuardBlocks(isUpdating)
       THEN /\ dropped' = dropped + 1
            /\ UNCHANGED <<isUpdating, cycles, lastResp, lastCycle>>
       ELSE \E r \in {RunFrom(1, <<>>, lastResp, backend, apis, clock)} :
                /\ dropped' = dropped
                /\ lastResp' = r.last
                /\ IF r.running
                   THEN /\ isUpdating' = TRUE
                        /\ cycles' = Append(cycles, [idx |-> r.idx, call |-> r.call,
                                                     log |-> r.log])
                        /\ lastCycle' = lastCycle
                   ELSE /\ isUpdating' = IsUpdatingAfter(r.log)
                        /\ cycles' = cycles
                        /\ lastCycle' = r.log
    /\ UNCHANGED <<cache, backend, clock, apis, clients, requests, deliveries, fnvars>>

\* the awaited I/O of cycle i's run completes; when the run returns the loop
\* goes on to the next section, and after the last one the finally block
\* resets isUpdating
CycleStep(i) ==
    /\ i \in 1..Len(cycles)
    /\ \E delivered \in Deliveries(cycles[i].call, apis, deliveries) :
         \E call \in {StepCall(cycles[i].call, delivered, cache, backend, apis, clock)} :
             /\ cache' = StoreAfter(cycles[i].call, cache, backend)
             /\ deliveries' = deliveries + (IF delivered = <<>> THEN 0 ELSE 1)
             /\ IF call.pc # "done"
                THEN /\ cycles' = [cycles EXCEPT ![i].call = call]
                     /\ UNCHANGED <<lastResp, isUpdating, lastCycle>>
                ELSE \E r \in {ResumeCycle(cycles[i], call, backend, apis, clock)} :
                     /\ lastResp' = r.last
                     /\ IF r.running
                        THEN /\ cycles' = [cycles EXCEPT ![i] =
                                   [idx |-> r.idx, call |-> r.call, log |-> r.log]]
                             /\ UNCHANGED <<isUpdating, lastCycle>>
                        ELSE /\ cycles' = RemoveAt(cycles, i)
                             /\ isUpdating' = IsUpdatingAfter(r.log)
                             /\ lastCycle' = r.log
    /\ UNCHANGED <<backend, clock, apis, clients, requests, fired, dropped, fnvars>>

\* time passes: every entry's TTL runs down, and an entry whose TTL is used up is gone
Tick(step, max) ==
    /\ clock < max * step
    /\ clock' = clock + step
    /\ cache' = [key \in CacheKeys |->
                   IF cache[key].present /\ cache[key].ttl > step
                   THEN [cache[key] EXCEPT !.ttl = @ - step]
                   ELSE NoEntry]
    /\ UNCHANGED <<backend, apis, isUpdating, cycles, clients, lastResp, requests,
                   deliveries, fired, dropped, lastCycle, fnvars>>

\* the redis connection opens, closes or starts rejecting commands
BackendChange(be) ==
    /\ be # backend
    /\ backend' = be
    /\ UNCHANGED <<cache, clock, apis, isUpdating, cycles, clients, lastResp, requests,
                   deliveries, fired, dropped, lastCycle, fnvars>>

Next ==
    \/ \E c \in 1..MaxClients, section \in ClientSections : ClientRequest(c, section, MaxRequests)
    \/ \E c \in 1..MaxClients : ClientStep(c, "plain")
    \/ \E initial \in BOOLEAN : Trigger(initial, MaxTriggers)
    \/ \E i \in 1..Len(cycles) : CycleStep(i)
    \/ Tick(TickStep, MaxTicks)
    \/ \E be \in BackendStates : BackendChange(be)

Spec == Init /\ [][Next]_vars

\* the scheduler on its own: the timers, the cycles and the backend, no client
NextSched ==
    \/ \E initial \in BOOLEAN : Trigger(initial, MaxSchedTriggers)
    \/ \E i \in 1..Len(cycles) : CycleStep(i)
    \/ \E be \in BackendStates : BackendChange(be)

SpecSched == Init /\ [][NextSched]_vars

\* a step in which the call a cycle awaits is answered: while a cycle is in
\* flight no timer callback starts another one, so the steps that change cycles
\* are the steps of CycleStep.  The first disjunct implies the second; it names
\* one value cycles may take, from which ENABLED is evaluated.
CycleAnswered == cycles # <<>> /\ (cycles' = <<>> \/ cycles' # cycles)

\* the scheduler when every provider call and every cache command that a cycle
\* awaits is answered in the end: axios calls carry a timeout, and a redis
\* command resolves or rejects.  CycleStep is enabled exactly while a cycle is
\* in flight, so this is weak fairness of \E i \in 1..Len(cycles) : CycleStep(i)
SpecSchedFair == SpecSched /\ WF_cycles(CycleAnswered)

\* the aggregation of one getNews run on its own: a client's request for any
\* section, each adapter answering with any of the outcomes told apart
NextFetch ==
    \/ \E c \in 1..MaxClients, section \in AllSections : ClientRequest(c, section, MaxRequests)
    \/ \E c \in 1..MaxClients : ClientStep(c, "study")

SpecFetch == Init /\ [][NextFetch]_vars

\* the credentials found in the environment: each provider's on its own (for
\* Naver both the client id and the client secret)
CredentialMixes == [newsapi : BOOLEAN, naver : BOOLEAN, x : BOOLEAN]

InitCreds == (\E creds \in CredentialMixes : Constructed(creds)) /\ FnIdle

\* the aggregation of one getNews run under any mix of credentials
SpecCreds == InitCreds /\ [][NextFetch]_vars

\* requests for world one after the other, the providers answering with up to
\* a full page and the feeds with more items than are kept, while the store
\* comes and goes
NextPaged ==
    \/ \E c \in 1..MaxClients : ClientRequest(c, "world", MaxPagedRequests)
    \/ \E c \in 1..MaxClients : ClientStep(c, "paged")
    \/ \E be \in BackendStates : BackendChange(be)

SpecPaged == Init /\ [][NextPaged]_vars

\* the store outlives the service and is shared: when the service is constructed
\* every key is absent, or holds an empty list another writer left there
InitStored ==
    /\ \E creds \in CredentialConfigs,
          entry \in {NoEntry, [present |-> TRUE, val |-> JsonStringify(<<>>),
                               ttl |-> CACHE_TTL]} :
           /\ cache = [key \in CacheKeys |-> entry]
           /\ apis = creds
    /\ backend = "open"
    /\ clock = 0
    /\ isUpdating = FALSE
    /\ cycles = <<>>
    /\ clients = [c \in 1..MaxClients |-> IdleCall]
    /\ lastResp = NoCall
    /\ requests = 0
    /\ deliveries = 0
    /\ fired = 0
    /\ dropped = 0
    /\ lastCycle = <<>>
    /\ FnIdle

\* the clients' runs and the cache gateway on their own, no refresh cycle
NextGateway ==
    \/ \E c \in 1..MaxClients, section \in ClientSections : ClientRequest(c, section, MaxRequests)
    \/ \E c \in 1..MaxClients : ClientStep(c, "plain")
    \/ Tick(TickStep, MaxTicks)
    \/ \E be \in BackendStates : BackendChange(be)

SpecGateway == InitStored /\ [][NextGateway]_vars

\* the runs of a client and of a refresh cycle side by side while the store
\* stays available and no entry expires: every interleaving of their awaits
NextRace ==
    \/ \E c \in 1..MaxClients, section \in ClientSections : ClientRequest(c, section, MaxRequests)
    \/ \E c \in 1..MaxClients : ClientStep(c, "plain")
    \/ \E initial \in BOOLEAN : Trigger(initial, MaxTriggers)
    \/ \E i \in 1..Len(cycles) : CycleStep(i)

SpecRace == Init /\ [][NextRace]_vars

\* the specification under which an entry is followed over several runs for its
\* section: a client asks for world more than once while a refresh cycle runs
NextKept ==
    \/ \E c \in 1..MaxClients : ClientRequest(c, "world", MaxPagedRequests)
    \/ \E c \in 1..MaxClients : ClientStep(c, "plain")
    \/ \E initial \in BOOLEAN : Trigger(initial, MaxTriggers)
    \/ \E i \in 1..Len(cycles) : CycleStep(i)
    \/ Tick(TickStep, MaxTicks)
    \/ \E be \in BackendStates : BackendChange(be)

SpecKept == Init /\ [][NextKept]_vars

----------------------------------------------------------------------------
(* Properties of getNews, under Spec *)

\* the run that returned last was a client's getNews(section, true), every
\* adapter of its section yielded nothing, and the cache has held no entry for
\* the section since the service started (no entry now, and none has expired)
AllAdaptersEmptyNoCache ==
    /\ lastResp.by = "client"
    /\ lastResp.call.useCache
    /\ lastResp.call.articles = <<>>
    /\ ~lastResp.call.resp.cached
    /\ clock = 0
    /\ ~cache[CacheKey(lastResp.call.section)].present

\* C1: when every adapter of the section yields zero articles and the cache holds
\* no entry for it, getNews(section, true) returns a non-empty article list
\* flagged as mock
C1_FallbackCompleteness ==
    AllAdaptersEmptyNoCache =>
        /\ lastResp.call.resp.mock
        /\ lastResp.call.resp.isArray
        /\ Len(lastResp.call.resp.articles) > 0

\* a response as the boundary layer expects it: a success, with an array of
\* articles of which total counts at least those listed, and one of fresh,
\* cached and mock
WellFormed(resp) ==
    /\ resp.success
    /\ resp.isArray
    /\ Len(resp.articles) <= resp.total
    /\ ~(resp.cached /\ resp.mock)

\* C2: every getNews run, for any section name, either useCache, any provider
\* outcome and any backend state, returns without throwing, and returns a
\* well-formed success response for the section asked
C2_NeverThrows ==
    lastResp.by # "none" =>
        /\ ~lastResp.call.resp.threw
        /\ lastResp.call.resp.section = lastResp.call.section
        /\ WellFormed(lastResp.call.resp)

\* C3: when the get of a getNews(section, true) run is answered from a non-empty
\* entry of the section, the run returns the first 20 articles of the entry,
\* flagged as cached, and has invoked no adapter
C3_CacheHitShortCircuits ==
    [][\A c \in 1..MaxClients :
        LET entry == cache[CacheKey(clients[c].section)]
        IN  (/\ clients[c].pc = "cacheGet"
             /\ clients'[c] # clients[c]
             /\ backend = "open"
             /\ entry.present
             /\ Len(entry.val) > 0)
            => /\ lastResp'.by = "client"
               /\ lastResp'.call.section = clients[c].section
               /\ lastResp'.call.resp.cached
               /\ ~lastResp'.call.resp.mock
               /\ lastResp'.call.resp.articles = Slice0(JsonParse(entry.val), 20)
               /\ lastResp'.call.resp.total = Len(entry.val)
               /\ lastResp'.call.invoked = <<>>]_vars

\* a client's run has been answered from the cache without asking any adapter
C3_Witness ==
    /\ lastResp.by = "client"
    /\ lastResp.call.resp.cached
    /\ ~lastResp.call.resp.fallback
    /\ Len(lastResp.call.resp.articles) > 0
    /\ lastResp.call.invoked = <<>>

\* C8: every section key of the cache is absent or maps to a non-empty article
\* sequence
C8_NoEmptyEntry ==
    \A key \in CacheKeys : cache[key].present => Len(cache[key].val) > 0

\* a run whose adapters all came back empty has returned while another
\* section's entry is in the cache: the empty result was not written
C8_Witness ==
    /\ lastResp.call.pc = "done"
    /\ lastResp.call.invoked # <<>>
    /\ lastResp.call.processed = <<>>
    /\ ~lastResp.call.resp.mock
    /\ ~cache[CacheKey(lastResp.call.section)].present
    /\ \E key \in CacheKeys : cache[key].present

\* the times at which the model lets getMockArticles be computed
MockTimes == {t * TickStep : t \in 0..MaxTicks}

\* no article of an entry is an article of the built-in mock set
MockNeverStored ==
    \A key \in CacheKeys : \A i \in 1..Len(cache[key].val) :
        /\ \A now \in MockTimes : cache[key].val[i] # JsonObject(MockWorld(now)[1])
        /\ "apiSource" \in DOMAIN cache[key].val[i] => cache[key].val[i].apiSource # "Mock"

\* no response is flagged both cached and mock
FlagsExclusive == ~(lastResp.call.resp.cached /\ lastResp.call.resp.mock)

\* a response flagged mock lists the built-in mock set
MockFlagOnlyForMockSet ==
    lastResp.call.resp.mock =>
        /\ lastResp.call.resp.isArray
        /\ \E now \in MockTimes : lastResp.call.resp.articles = MockWorld(now)

\* a response flagged mock came from the catch block, after the run threw and
\* its cache fallback found nothing
MockOnlyFromCatch ==
    lastResp.call.resp.mock =>
        /\ lastResp.call.resp.fallback
        /\ lastResp.call.processed = <<>>
        /\ lastResp.call.reads >= 1

\* C29: no cache entry holds the built-in mock set, a response is flagged mock
\* only when its articles are the built-in mock set, and no response is
\* flagged both cached and mock
C29_MockNeverCachedFlagsExclusive ==
    MockNeverStored /\ FlagsExclusive /\ MockFlagOnlyForMockSet

----------------------------------------------------------------------------
(* Properties of the refresh cycle, under SpecSched *)

IsPrefix(s, t) == Len(s) <= Len(t) /\ SubSeq(t, 1, Len(s)) = s

\* C9: at most one cycle runs at any time; a trigger that fires while a cycle is
\* running starts nothing and leaves the running cycle alone; a cycle starts
\* only in the step of a trigger, so none starts when the running one finishes
C9_MutualExclusion ==
    /\ [](Len(cycles) <= 1 /\ (isUpdating <=> cycles # <<>>))
    /\ [][/\ (fired' # fired /\ isUpdating) =>
                /\ cycles' = cycles
                /\ isUpdating'
                /\ lastCycle' = lastCycle
                /\ dropped' = dropped + 1
          /\ (fired' = fired) =>
                /\ Len(cycles') <= Len(cycles)
                /\ dropped' = dropped
                /\ \A i \in 1..Len(cycles') : IsPrefix(cycles[i].log, cycles'[i].log)]_vars

\* a trigger was dropped while the first cycle ran, that cycle has finished,
\* and nothing runs now
C9_Witness ==
    /\ fired = 2
    /\ dropped = 1
    /\ cycles = <<>>
    /\ ~isUpdating
    /\ lastCycle # <<>>

\* the runs of a whole cycle: each known section begun and ended, in order
InOrder(log) ==
    \A k \in 1..Len(log) :
        /\ log[k][1] = (IF k % 2 = 1 THEN "start" ELSE "end")
        /\ log[k][2] = KnownSections[(k + 1) \div 2]

\* C10: a cycle visits every known section once, in the order world, kr, japan,
\* tech, business, buzz, each run ending before the next begins, whatever the
\* runs end in
C10_EverySectionInOrder ==
    /\ \A i \in 1..Len(cycles) :
          /\ Len(cycles[i].log) = 2 * cycles[i].idx - 1
          /\ cycles[i].idx <= Len(KnownSections)
          /\ InOrder(cycles[i].log)
    /\ lastCycle # <<>> =>
          /\ Len(lastCycle) = 2 * Len(KnownSections)
          /\ InOrder(lastCycle)

\* a finished cycle in which the run of world ended in the mock fallback
C10_Witness ==
    /\ lastCycle # <<>>
    /\ lastCycle[2] = <<"end", "world", "mock">>
    /\ lastCycle[Len(lastCycle)][2] = "buzz"

\* the runs of getNews(section, false): the one a cycle has in flight, and the
\* one a cycle saw return last
BypassRuns ==
    {cycles[i].call : i \in 1..Len(cycles)}
    \cup (IF lastResp.by = "cycle" THEN {lastResp.call} ELSE {})

\* some article handed to processArticles makes removeDuplicates throw
SomeTitleThrows(articles) == \E i \in 1..Len(articles) : TitleThrows(articles[i])

UnknownSectionFetched ==
    /\ lastResp.by = "client"
    /\ lastResp.call.section \notin Range(KnownSections)
    /\ ~(lastResp.call.resp.cached /\ ~lastResp.call.resp.fallback)

\* C12: for a section name that is not configured, getNews does not fail and
\* invokes exactly the adapters it invokes for world, keyed providers and RSS
\* feeds, in the same order
C12_UnknownLikeWorld ==
    UnknownSectionFetched =>
        /\ lastResp.call.resp.success
        /\ ~lastResp.call.resp.mock
        /\ lastResp.call.invoked = Pipeline("world", apis)

\* the log of a cycle that went through every section
Complete(log) ==
    /\ Len(log) = 2 * Len(KnownSections)
    /\ log[Len(log)][1] = "end"
    /\ log[Len(log)][2] = KnownSections[Len(KnownSections)]

\* C20: the scheduler is idle (flag clear, no cycle) or running (flag set, one
\* cycle); it leaves idle only by a timer callback that starts a cycle and
\* leaves running only by that cycle finishing its last section; every cycle
\* that starts finishes and clears the flag, whatever its sections ran into,
\* when each awaited call returns in the end; and a timer callback that finds
\* the flag clear is not dropped: it starts a cycle
C20_CycleFinishes ==
    /\ [](isUpdating <=> Len(cycles) = 1)
    /\ [](Len(cycles) <= 1)
    /\ [][/\ (~isUpdating /\ isUpdating') => fired' = fired + 1 /\ dropped' = dropped
          /\ (isUpdating /\ ~isUpdating') =>
                 cycles' = <<>> /\ Complete(lastCycle') /\ fired' = fired
          /\ (~isUpdating /\ fired' = fired + 1) =>
                 dropped' = dropped /\ (isUpdating' \/ Complete(lastCycle'))]_vars
    /\ isUpdating ~> ~isUpdating

\* two timer callbacks have each started a cycle, none was dropped, both cycles
\* are over and the flag is clear; in the second one a section ended in the
\* mock set
C20_Witness ==
    /\ fired = 2
    /\ dropped = 0
    /\ ~isUpdating
    /\ cycles = <<>>
    /\ Complete(lastCycle)
    /\ \E n \in 1..Len(lastCycle) : lastCycle[n][3] = "mock"

----------------------------------------------------------------------------
(* Properties of concurrent getNews runs, under SpecRace *)

\* the runs of getNews whose awaited command is answered in the step: the
\* client's whose record changes, the cycle's whose record changes or ends
Answered ==
    {clients[c] : c \in {d \in 1..MaxClients :
                            /\ clients[d].pc \notin {"idle", "done"}
                            /\ clients'[d] # clients[d]}}
    \cup {cycles[i].call : i \in {j \in 1..Len(cycles) :
                                    \/ Len(cycles') < Len(cycles)
                                    \/ cycles'[j] # cycles[j]}}

\* the store's entry right after setEx(key, 600, JSON.stringify(articles))
EntryOf(articles) ==
    [present |-> TRUE, val |-> JsonStringify(articles), ttl |-> CACHE_TTL]

\* the run's processed articles are the whole output of processArticles for the
\* sequence the run fetched, computed at some time up to now
WholeResult(run) ==
    \E t \in 0..MaxTicks :
        /\ t * TickStep <= clock
        /\ Ok(run.processed) = processArticles(WithPos(run.articles), run.section,
                                               t * TickStep)

\* the runs whose setEx for the key is answered in the step
Writers(key) == {run \in Answered : run.pc = "cacheSet" /\ CacheKey(run.section) = key}

\* the answers of the run that carried articles
Carrying(run) == {n \in 1..Len(run.answers) : run.answers[n] # <<>>}

\* C21: whatever the interleaving of the runs in flight, a section's entry
\* changes only by expiry or by the write of one run, and after a write it is
\* the whole processed result of the run whose write was served in that step
\* (the last writer), never empty and never made of two runs' results
C21_LastWriteWins ==
    [][\A key \in CacheKeys :
          cache'[key] # cache[key] =>
              \/ /\ clock' # clock
                 /\ cache[key].present
                 /\ cache'[key] = NoEntry \/ cache'[key].val = cache[key].val
              \/ /\ clock' = clock
                 /\ backend = "open"
                 /\ \E run \in Writers(key) :
                        /\ cache'[key] = EntryOf(run.processed)
                        /\ Len(run.processed) > 0
                        /\ WholeResult(run)]_vars

\* a client's run and a cycle's run fetched world side by side and each got
\* one article.  The client's read had found no entry; then the cycle's run
\* wrote its result and returned (the cycle has gone on to kr, where nothing
\* is answered yet); then the client's run wrote and returned.  The entry is
\* the client's result, the one written last
C21_Witness ==
    /\ lastResp.by = "client"
    /\ lastResp.call.section = "world"
    /\ lastResp.call.reads = 1
    /\ ~lastResp.call.resp.cached
    /\ Cardinality(Carrying(lastResp.call)) = 1
    /\ Len(lastResp.call.processed) = 1
    /\ cache[CacheKey("world")] = EntryOf(lastResp.call.processed)
    /\ deliveries = 2
    /\ Len(cycles) = 1
    /\ cycles[1].idx = 2
    /\ cycles[1].call.answers = <<>>
    /\ cycles[1].log[2] = <<"end", "world", "fresh">>

----------------------------------------------------------------------------
(* Properties of the length of the response, under SpecPaged *)

\* the clients' runs that return in the step
Returned ==
    {run \in Answered : \E c \in 1..MaxClients : clients[c] = run /\ clients'[c] = IdleCall}

\* the articles a response lists at most: 10 from the catch block's cache
\* fallback, 20 from the cache hit and from the fresh result
ResponseLimit(resp) == IF resp.fallback THEN 10 ELSE 20

\* the response lists the first articles of the sequence, up to its limit, and
\* its total is the length of the whole sequence
FirstOf(resp, sequence) ==
    /\ resp.total = Len(sequence)
    /\ Len(resp.articles) = Min(Len(sequence), ResponseLimit(resp))
    /\ IsPrefix(resp.articles, sequence)

\* C27: a response lists the first 20 articles of the processed or cached
\* sequence (the first 10 on the catch block's cache fallback) while its total
\* is the length of the whole sequence, so the two are equal exactly when the
\* sequence fits the limit; the mock list is short and listed whole; a served
\* write stores the whole processed sequence, not the part the response lists
C27_ResponseTruncation ==
    [][\A run \in Returned :
            LET resp == lastResp'.call.resp
                stored == JsonParse(cache[CacheKey(run.section)].val)
            IN  /\ lastResp'.by = "client"
                /\ resp.cached => /\ run.pc \in {"cacheGet", "fallbackGet"}
                                  /\ resp.fallback = (run.pc = "fallbackGet")
                                  /\ FirstOf(resp, stored)
                /\ ~resp.cached /\ ~resp.mock /\ ~resp.threw =>
                       /\ ~resp.fallback
                       /\ FirstOf(resp, lastResp'.call.processed)
                /\ resp.mock /\ resp.isArray =>
                       /\ resp.total = Len(resp.articles)
                       /\ resp.total <= ResponseLimit(resp)
                /\ run.pc = "cacheSet" /\ backend = "open" =>
                       /\ cache'[CacheKey(run.section)] = EntryOf(run.processed)
                       /\ Len(cache'[CacheKey(run.section)].val) = resp.total]_vars

\* a run that threw after its fetch was answered from the cache by the catch
\* block: the entry holds more than 20 articles, the response lists 10 of them
C27_Witness ==
    /\ lastResp.by = "client"
    /\ lastResp.call.resp.cached
    /\ lastResp.call.resp.fallback
    /\ Len(lastResp.call.resp.articles) = 10
    /\ lastResp.call.resp.total > 20
    /\ Len(cache[CacheKey("world")].val) = lastResp.call.resp.total

----------------------------------------------------------------------------
(* Properties of an entry over several runs for its section, under SpecKept *)

\* the runs that return in the step with the fresh response of an empty
\* processed result
EmptyEnds ==
    {run \in Answered :
        \E delivered \in Deliveries(run, apis, deliveries) :
            \E next \in {StepCall(run, delivered, cache, backend, apis, clock)} :
                /\ next.pc = "done"
                /\ next.processed = <<>>
                /\ RespKind(next.resp) = "fresh"
                /\ lastResp'.call = next}

\* C28: the step in which a run of a client or of a cycle returns with an
\* empty processed result leaves every entry as it was, value and expiry, and
\* no run with an empty result waits on a write; a read of getNews(section,
\* true) that the store answers while the entry is there is served from it
C28_EmptyFetchKeepsEntry ==
    [][/\ EmptyEnds # {} => cache' = cache
       /\ \A run \in Answered : run.pc = "cacheSet" => run.processed # <<>>
       /\ \A run \in Answered :
            LET entry == cache[CacheKey(run.section)]
            IN  run.pc = "cacheGet" /\ backend = "open" /\ entry.present =>
                    /\ run \in Returned
                    /\ lastResp'.call.resp.cached
                    /\ lastResp'.call.resp.total = Len(entry.val)
                    /\ IsPrefix(lastResp'.call.resp.articles, JsonParse(entry.val))
                    /\ cache' = cache]_vars

\* the cycle's run for world has come back with an empty result while the
\* entry the client's run wrote for world is in the cache
C28_Witness ==
    /\ lastResp.by = "cycle"
    /\ lastResp.call.section = "world"
    /\ lastResp.call.invoked # <<>>
    /\ lastResp.call.processed = <<>>
    /\ RespKind(lastResp.call.resp) = "fresh"
    /\ cache[CacheKey("world")].present
    /\ requests >= 1

\* the run a client's request starts in the step
Requested ==
    IF \E c \in 1..MaxClients : clients'[c] # clients[c]
    THEN {clients'[c] : c \in {d \in 1..MaxClients : clients'[d] # clients[d]}}
    ELSE {lastResp'.call}

\* the steps of a read after a refresh: a write of a non-empty result stores
\* it, the entry stays until it expires, a request for its section waits on
\* the read without asking any adapter, and the read returns the first 20
\* articles of the entry flagged cached; available tells whether the step is
\* one in which the backend serves the command
ReadAfterRefresh(available) ==
    /\ \A key \in CacheKeys : \A run \in Writers(key) :
            available => cache'[key] = EntryOf(run.processed) /\ run.processed # <<>>
    /\ \A key \in CacheKeys :
            cache[key].present /\ clock' = clock => cache'[key].present
    /\ requests' # requests =>
            \A run \in Requested :
                cache[CacheKey(run.section)].present /\ available =>
                    run.pc = "cacheGet" /\ run.invoked = <<>>
    /\ \A run \in Answered :
            LET entry == cache[CacheKey(run.section)]
                resp == lastResp'.call.resp
            IN  run.pc = "cacheGet" /\ entry.present /\ available =>
                    /\ run \in Returned
                    /\ lastResp'.call.section = run.section
                    /\ resp.cached /\ ~resp.fallback /\ ~resp.mock
                    /\ resp.articles = SubSeq(JsonParse(entry.val), 1,
                                                Min(20, Len(entry.val)))
                    /\ lastResp'.call.invoked = <<>>

\* C30 as stated: once a run with a non-empty result has sent its write, the
\* next getNews(section, true) before the TTL elapses is answered from the
\* entry, without invoking any adapter
C30_ReadAfterRefresh == [][ReadAfterRefresh(TRUE)]_vars

\* C30, amended: the same, in the steps in which the backend is available,
\* for the write, for the request and for the read
C30_ReadAfterRefreshWhileOpen == [][ReadAfterRefresh(backend = "open")]_vars

\* no cycle has run; the client's first run for world fetched and wrote its
\* result, and its second request was answered from that entry
C30_Witness ==
    /\ fired = 0
    /\ requests = 2
    /\ lastResp.by = "client"
    /\ lastResp.call.resp.cached
    /\ ~lastResp.call.resp.fallback
    /\ lastResp.call.invoked = <<>>
    /\ cache[CacheKey("world")].present
    /\ lastResp.call.resp.articles = JsonParse(cache[CacheKey("world")].val)

----------------------------------------------------------------------------
(* Properties of the aggregation step, under SpecFetch *)

\* the runs of getNews that clients started: those in flight and the one that
\* returned last
ClientRuns ==
    {clients[c] : c \in {d \in 1..MaxClients : clients[d].pc # "idle"}} \cup
    (IF lastResp.by = "client" THEN {lastResp.call} ELSE {})

\* the run has left the aggregation step: every request it sends is answered
PastFetch(run) ==
    \/ run.pc \in {"cacheSet", "fallbackGet"}
    \/ run.pc = "done" /\ ~(run.resp.cached /\ ~run.resp.fallback)

\* what the first n answers of the run contributed, one adapter after the other
RECURSIVE Kept(_, _)
Kept(run, n) ==
    IF n = 0 THEN <<>>
    ELSE Kept(run, n - 1) \o Contribution(run.invoked[n], run.answers[n])

\* the run reached the catch block of getNews
Caught(run) == run.pc = "fallbackGet" \/ run.resp.fallback \/ run.resp.mock

\* C13: within one getNews run an adapter's failure goes no further than the
\* aggregation step (the run does not throw, and reaches the catch block only
\* for a title that cannot be read or a section name whose feed list cannot be
\* iterated), the adapters after it are still invoked (the adapters invoked
\* are the pipeline up to the request in flight, the whole pipeline once the
\* run is past the step), and the sequence handed to processArticles holds
\* what every adapter that answered contributed
C13_FailureIsolated ==
    \A run \in ClientRuns :
        /\ Len(run.answers) = Len(run.invoked)
        /\ run.invoked = SubSeq(Pipeline(run.section, apis), 1, Len(run.invoked))
        /\ run.pc = "fetch" => run.k = Len(run.invoked) + 1
        /\ PastFetch(run) => run.invoked = Pipeline(run.section, apis)
        /\ run.articles = Kept(run, Len(run.invoked))
        /\ ~run.resp.threw
        /\ Caught(run) =>
               SomeTitleThrows(WithPos(run.articles)) \/ RssIterationThrows(run.section)

\* a run for world has returned: the keyed provider and Reuters each delivered
\* an article, BBC failed in between, and both articles are in the fresh response
C13_Witness ==
    /\ lastResp.by = "client"
    /\ lastResp.call.section = "world"
    /\ Len(lastResp.call.answers) = 3
    /\ lastResp.call.answers[1] # Failure
    /\ lastResp.call.answers[2] = Failure
    /\ Len(lastResp.call.articles) = 2
    /\ lastResp.call.articles[1].apiSource = "NewsAPI"
    /\ lastResp.call.articles[2].source = "Reuters"
    /\ lastResp.call.resp = FreshResponse("world", lastResp.call.processed)
    /\ Len(lastResp.call.resp.articles) = 2

\* where the article's source stands in the order of the section: 0 for a keyed
\* provider, n for the n-th feed of the section
SourceRank(section, article) ==
    IF article.apiSource # "RSS" THEN 0
    ELSE CHOOSE n \in 1..Len(RssSources(section)) :
             RssSources(section)[n].arg = article.source

\* the articles of the sequence that came from the feed
FromFeed(articles, feed) ==
    {i \in 1..Len(articles) :
        articles[i].apiSource = "RSS" /\ articles[i].source = feed.arg}

\* C14: in every getNews run that fetches fresh one request is in flight at a
\* time, the requests answered so far are the keyed providers of the section
\* followed by its feeds in declared order (so no feed is requested before
\* every keyed provider has answered), the combined sequence holds the keyed
\* providers' articles first and then the feeds' articles in feed order, and
\* no feed has more than 5 articles in it
C14_AggregationOrder ==
    \A run \in ClientRuns :
        LET pipeline == Pipeline(run.section, apis)
            primaries == Len(PrimaryAdapters(run.section, apis))
        IN  /\ run.invoked = SubSeq(pipeline, 1, Len(run.invoked))
            /\ run.pc = "fetch" => run.k = Len(run.invoked) + 1
            /\ \A n \in 1..Len(pipeline) : pipeline[n].api = "RSS" <=> n > primaries
            /\ \A n \in 1..Len(pipeline) :
                   n > primaries => pipeline[n] = RssSources(run.section)[n - primaries]
            /\ \A i, j \in 1..Len(run.articles) :
                   i < j => SourceRank(run.section, run.articles[i])
                                <= SourceRank(run.section, run.articles[j])
            /\ \A n \in 1..Len(RssSources(run.section)) :
                   Cardinality(FromFeed(run.articles, RssSources(run.section)[n])) <= 5

\* a run for world has returned: BBC answered 6 articles and Reuters one; the
\* combined sequence is the keyed provider's article, 5 of BBC, Reuters' one
C14_Witness ==
    /\ lastResp.by = "client"
    /\ lastResp.call.section = "world"
    /\ Len(lastResp.call.answers) = 3
    /\ Len(lastResp.call.answers[2]) = 6
    /\ Len(lastResp.call.articles) = 7
    /\ lastResp.call.articles[1].apiSource = "NewsAPI"
    /\ \A i \in 2..6 : lastResp.call.articles[i].source = "BBC"
    /\ lastResp.call.articles[7].source = "Reuters"

\* the provider needs no credential, or its credential is configured
Configured(api) ==
    CASE api = "NewsAPI" -> apis.newsapi
      [] api = "Naver" -> apis.naver
      [] api = "X" -> apis.x
      [] OTHER -> TRUE

\* the adapters of the section when every credential is there, less those
\* whose credential is not configured
EnabledAdapters(section) ==
    SelectSeq(Pipeline(section, AllCredentials), LAMBDA adapter : Configured(adapter.api))

\* C25: in every getNews run no request goes to a keyed provider whose
\* credential is not configured, no article of that provider is in the
\* combined sequence, the run does not throw and reaches its catch block for
\* no other reason than with the credential, and the other adapters of the
\* section, the feeds among them, are all requested
C25_AbsentCredentialDisables ==
    \A run \in ClientRuns :
        /\ \A n \in 1..Len(run.invoked) : Configured(run.invoked[n].api)
        /\ \A i \in 1..Len(run.articles) : Configured(run.articles[i].apiSource)
        /\ run.invoked = SubSeq(EnabledAdapters(run.section), 1, Len(run.invoked))
        /\ PastFetch(run) => run.invoked = EnabledAdapters(run.section)
        /\ ~run.resp.threw
        /\ Caught(run) =>
               SomeTitleThrows(WithPos(run.articles)) \/ RssIterationThrows(run.section)

\* a run for world has returned while NewsAPI has no key and X has a token:
\* NewsAPI was not asked, both feeds were, and their articles are the response
C25_Witness ==
    /\ ~apis.newsapi
    /\ apis.x
    /\ lastResp.by = "client"
    /\ lastResp.call.section = "world"
    /\ lastResp.call.invoked = RssSources("world")
    /\ Len(lastResp.call.articles) > 1
    /\ lastResp.call.resp = FreshResponse("world", lastResp.call.processed)
    /\ Len(lastResp.call.resp.articles) > 1

----------------------------------------------------------------------------
(* Properties of getNews towards the cache gateway, under SpecGateway *)

\* the run without the note of whether its last cache command was sent, which
\* is written anew before every command that is awaited
Forget(run) == [run EXCEPT !.issued = FALSE]

\* getNews(section, true) as it stands once its read has missed: at the first
\* request of the pipeline (or past it when the section has no adapter)
MissStart(section) ==
    Forget(BeginFetch([NewCall(section, TRUE) EXCEPT !.reads = 1], backend, apis, clock))

\* client c's run after the step: in flight, or returned
Landed(c) ==
    IF clients'[c] # clients[c] /\ clients'[c].pc # "idle" THEN clients'[c]
    ELSE lastResp'.call

\* the read of client c's run is answered in this step and finds nothing to
\* return: the command rejects, the key is absent or has expired, or the
\* stored list is empty
ReadMisses(c) ==
    /\ clients[c].pc = "cacheGet"
    /\ clients'[c] # clients[c]
    /\ \/ backend # "open"
       \/ ~cache[CacheKey(clients[c].section)].present
       \/ Len(JsonParse(cache[CacheKey(clients[c].section)].val)) = 0

\* a request arrives in this step while the client of the store is not open
RequestFindsClosed == requests' = requests + 1 /\ ~ClientOpen(backend)

\* C15: whether the backend is unavailable, the key absent or expired, the read
\* rejected or the stored list empty, getNews(section, true) goes on to fetch,
\* and the run stands as it stands after any other of these misses
C15_MissUniform ==
    [][/\ \A c \in 1..MaxClients :
              ReadMisses(c) => Forget(Landed(c)) = MissStart(clients[c].section)
       /\ RequestFindsClosed =>
              \E c \in 1..MaxClients :
                  Forget(Landed(c)) = MissStart(Landed(c).section)]_vars

\* a run for world is awaiting its first adapter after one read, while the
\* store is open and holds an empty list under the section's key
C15_Witness ==
    /\ \E c \in 1..MaxClients :
           /\ clients[c].pc = "fetch"
           /\ clients[c].section = "world"
           /\ clients[c].reads = 1
           /\ clients[c].issued
           /\ clients[c].k = 1
    /\ backend = "open"
    /\ clock = 0
    /\ cache[CacheKey("world")].present
    /\ JsonParse(cache[CacheKey("world")].val) = <<>>

\* client c's run takes a step in which it would write its processed articles,
\* and the write is not served: the client of the store is not open when
\* cacheNews is called, or the setEx command rejects
WriteFails(c) ==
    /\ clients[c].pc \in {"fetch", "cacheSet"}
    /\ clients'[c] # clients[c]
    /\ backend # "open"
    /\ Landed(c).pc = "done"
    /\ Len(Landed(c).processed) > 0
    /\ ~Caught(Landed(c))

\* C16: when the backend is unavailable or the write rejects, the store is left
\* as it was, nothing is thrown, and the getNews call returns the articles it
\* has just processed as a fresh response, neither cached nor mock
C16_WriteFailureHarmless ==
    [][\A c \in 1..MaxClients :
           WriteFails(c) =>
               /\ cache' = cache
               /\ Landed(c).resp = FreshResponse(Landed(c).section, Landed(c).processed)
               /\ Landed(c).resp.success
               /\ ~Landed(c).resp.threw
               /\ ~Landed(c).resp.cached
               /\ ~Landed(c).resp.mock
               /\ Len(Landed(c).resp.articles) > 0]_vars

\* a client's run has returned fresh articles after its setEx was sent and not
\* served: the store is closed and holds nothing under the section's key
C16_Witness ==
    /\ lastResp.by = "client"
    /\ lastResp.call.issued
    /\ lastResp.call.reads = 1
    /\ Len(lastResp.call.processed) > 0
    /\ lastResp.call.resp = FreshResponse(lastResp.call.section, lastResp.call.processed)
    /\ backend = "closed"
    /\ clock = 0
    /\ cache[CacheKey(lastResp.call.section)] = NoEntry

----------------------------------------------------------------------------
(* processArticles on its own: fin is its input, fout its result *)

\* articles in one input of processArticles
MaxArticles == 3

\* forty-nine characters shared by the long titles
Pad49 == [i \in 1..49 |-> "p"]

\* titles that agree or differ at character 50, differ only behind it, differ
\* in case; the empty title; a null title
ProcTitles ==
    {Pad49 \o <<"a">>, Pad49 \o <<"A">>, Pad49 \o <<"a", "x">>, Pad49 \o <<"b">>,
     <<>>, NullV}

ProcUrls == {UrlPrefix \o <<"u">>, UndefV}

ProcArticles ==
    {RawArticle(title, url, "BBC", "en", "RSS", NoMetrics, 0) :
        title \in ProcTitles, url \in ProcUrls}

\* articles with titles of their own and a url, published at two different
\* times or with a publishedAt that new Date cannot parse.  The comparator of
\* the sort answers NaN, which sort takes as 0, whenever one of the two dates
\* is unparseable; it is a consistent comparator, for which the sorted order is
\* defined, only if the parseable dates of the sequence are then all the same.
\* On the other sequences the order depends on the engine, and none is drawn.
DatedInputs ==
    LET Dated(i, date) ==
            RawArticle(<<"t", <<"1", "2", "3", "4">>[i]>>, UrlPrefix \o <<"u">>, "CNN",
                       "en", "NewsAPI", NoMetrics, date)
        Consistent(dates) ==
            NaN \notin Range(dates) \/ Cardinality(Range(dates) \ {NaN}) <= 1
    IN  {[i \in 1..Len(dates) |-> Dated(i, dates[i])] :
            dates \in {d \in UNION {[1..n -> {NaN, 100, 200}] : n \in 1..MaxArticles} :
                         Consistent(d)}}

ProcInputs == UNION {[1..n -> ProcArticles] : n \in 0..MaxArticles} \cup DatedInputs

InitProcess ==
    /\ Constructed(AllCredentials)
    /\ fin \in {[articles |-> WithPos(articles), section |-> "world"] :
                  articles \in ProcInputs}
    /\ fout = <<>>
    /\ fst = "in"

ApplyProcess ==
    /\ fst = "in"
    /\ fout' = processArticles(fin.articles, fin.section, clock)
    /\ fst' = "out"
    /\ UNCHANGED <<fin, sysvars>>

SpecProcess == InitProcess /\ [][ApplyProcess]_vars

\* the two titles are strings that agree, case-insensitively, on their first 50 characters
SameFirst50(t1, t2) ==
    /\ t1 \notin {NullV, UndefV}
    /\ t2 \notin {NullV, UndefV}
    /\ LET p1 == Substring0(t1, 50)
           p2 == Substring0(t2, 50)
       IN  /\ Len(p1) = Len(p2)
           /\ \A i \in 1..Len(p1) : LowerChar(p1[i]) = LowerChar(p2[i])

\* the input positions of the articles in the output
OutPos == {fout.val[k].pos : k \in 1..Len(fout.val)}

\* the pairs of input positions, earlier first, whose titles agree
DupPairs ==
    {pair \in (1..Len(fin.articles)) \X (1..Len(fin.articles)) :
        /\ pair[1] < pair[2]
        /\ SameFirst50(fin.articles[pair[1]].title, fin.articles[pair[2]].title)}

\* C4 as stated: of two articles whose titles agree on the first 50 characters,
\* the output holds exactly one, the earlier
C4_ExactlyTheEarlier ==
    (fst = "out" /\ fout.ok) =>
        \A pair \in DupPairs : pair[1] \in OutPos /\ pair[2] \notin OutPos

\* C4 amended: of two articles whose titles agree on the first 50 characters,
\* the output never holds the later one, and it holds the earlier one exactly
\* when no article before it agrees with it and it has a non-empty title and a URL
C4_NeverTheLater ==
    (fst = "out" /\ fout.ok) =>
        \A pair \in DupPairs :
            /\ pair[2] \notin OutPos
            /\ pair[1] \in OutPos <=>
                 /\ \A h \in 1..(pair[1] - 1) :
                       ~SameFirst50(fin.articles[h].title, fin.articles[pair[1]].title)
                 /\ Truthy(fin.articles[pair[1]].title)
                 /\ Truthy(fin.articles[pair[1]].url)

\* two titles that differ in case and behind character 50 were merged, the
\* earlier one survived
C4_Witness ==
    /\ fst = "out"
    /\ fout.ok
    /\ \E pair \in DupPairs :
         /\ pair[1] \in OutPos
         /\ fin.articles[pair[1]].title = Pad49 \o <<"A">>
         /\ fin.articles[pair[2]].title = Pad49 \o <<"a", "x">>

\* the input positions of the dedup survivors that have a title and a url
SurvivorsWithBoth ==
    {i \in 1..Len(fin.articles) :
        FirstWithKey(fin.articles, i) /\ HasTitleAndUrl(fin.articles[i])}

\* C17: for any input sequence processArticles returns, and its output is made
\* of exactly the dedup survivors that have both a title and a url, every
\* article that misses one of them dropped
C17_FilterExact ==
    fst = "out" => fout.ok /\ OutPos = SurvivorsWithBoth

\* the output positions i before j
OutPairs ==
    {pair \in (1..Len(fout.val)) \X (1..Len(fout.val)) : pair[1] < pair[2]}

\* C18: the output of processArticles is in descending order of the parsed
\* publishedAt, and an article whose publishedAt cannot be parsed stands after
\* every article whose publishedAt can
C18_SortTotalOrder ==
    (fst = "out" /\ fout.ok) =>
        \A pair \in OutPairs :
            LET first == fout.val[pair[1]].publishedAt
                second == fout.val[pair[2]].publishedAt
            IN  /\ first = NaN => second = NaN
                /\ (first # NaN /\ second # NaN) => first >= second

----------------------------------------------------------------------------
(* processArticles on what the aggregation step hands it, under SpecFetch *)

\* the pairs of positions, in the sequence the run handed to processArticles,
\* of a keyed provider's article and a feed's article with the same dedup key
CrossDuplicates(run) ==
    {pair \in (1..Len(run.articles)) \X (1..Len(run.articles)) :
        /\ run.articles[pair[1]].apiSource # "RSS"
        /\ run.articles[pair[2]].apiSource = "RSS"
        /\ SameFirst50(run.articles[pair[1]].title, run.articles[pair[2]].title)}

\* the client runs that have returned after a keyed provider and a feed
\* delivered the same story
CrossDuplicateRuns ==
    {run \in ClientRuns : run.pc = "done" /\ CrossDuplicates(run) # {}}

\* the articles of the run's output that have the dedup key of input article i
Copies(run, i) ==
    {k \in 1..Len(run.processed) :
        SameFirst50(run.processed[k].title, run.articles[i].title)}

\* the first input article that has the dedup key of input article i
FirstCopy(run, i) ==
    CHOOSE h \in 1..i :
        /\ SameFirst50(run.articles[h].title, run.articles[i].title)
        /\ \A g \in 1..(h - 1) :
               ~SameFirst50(run.articles[g].title, run.articles[i].title)

\* the run's output is in descending order of publishedAt
Descending(run) ==
    \A k \in 1..(Len(run.processed) - 1) :
        run.processed[k].publishedAt >= run.processed[k + 1].publishedAt

C22_TranslationPassthrough ==
    \A run \in ClientRuns :
        \A k \in 1..Len(run.processed) :
            LET out == run.processed[k]
                raw == run.articles[out.pos]
            IN  /\ out.title = raw.title
                /\ out.description = raw.description
                /\ out.language = raw.language
                /\ out.titleKo = out.title
                /\ out.descriptionKo = out.description

\* a run for japan has returned articles in Japanese (NHK) and in English
\* (NewsAPI): each one's display copies are its own title and description
C22_Witness ==
    /\ lastResp.by = "client"
    /\ lastResp.call.section = "japan"
    /\ lastResp.call.resp = FreshResponse("japan", lastResp.call.processed)
    /\ \E k \in 1..Len(lastResp.call.processed) :
           /\ lastResp.call.processed[k].language = "ja"
           /\ lastResp.call.processed[k].titleKo = lastResp.call.processed[k].title
           /\ Len(lastResp.call.processed[k].titleKo) > 0
    /\ \E k \in 1..Len(lastResp.call.processed) :
           lastResp.call.processed[k].language = "en"

\* C26: any two articles of one output of processArticles that have different
\* URLs have different ids
C26_IdsDistinct ==
    \A run \in ClientRuns :
        \A i, j \in 1..Len(run.processed) :
            run.processed[i].url # run.processed[j].url
                => run.processed[i].id # run.processed[j].id

----------------------------------------------------------------------------
(* calculateRating on its own: fin is the article, fout the rating *)

TitlePlain == <<"N", "e", "w", "s">>

TitleBreaking == <<"B", "r", "e", "a", "k", "i", "n", "g">>

TitleUrgent == <<"U", "R", "G", "E", "N", "T">>

TitleMajor == <<"a", " ", "M", "a", "j", "o", "r">>

TitleBreakingImportant ==
    TitleBreaking \o <<" ">> \o <<"I", "m", "p", "o", "r", "t", "a", "n", "t">>

TitleTrendingViral == <<"T", "r", "e", "n", "d", "i", "n", "g", " ", "v", "i", "r", "a", "l">>

RatingTitles ==
    {TitlePlain, TitleBreaking, TitleUrgent, KwGingeup, TitleMajor, KwJungyo,
     TitleBreakingImportant}

RatingDescriptions == {<<"d">>, NullV, KwImportant}

\* ages around the limits of 2, 6 and 24 hours; a date in the future
RatingAges == {0, 7199, 7200, 21599, 21600, 86399, 86400, 0 - 60}

\* no metrics, a missing count, and sums around 1000 and 10000
RatingMetrics ==
    {NoMetrics, Metrics(NaN, 20000), Metrics(20000, NaN), Metrics(500, 500),
     Metrics(500, 501), Metrics(5000, 5000), Metrics(5000, 5001)}

ApiSources == {"NewsAPI", "Naver", "X", "RSS"}

RatingInputs ==
    {RawArticle(title, UrlPrefix, "BBC", "en", api, metrics, date)
        : title \in RatingTitles, api \in ApiSources, metrics \in RatingMetrics,
          date \in {0 - age : age \in RatingAges} \cup {NaN}}
    \cup {[RawArticle(TitleBreakingImportant, UrlPrefix, "BBC", "en", api, metrics, 0)
             EXCEPT !.description = description]
        : api \in ApiSources, metrics \in RatingMetrics,
          description \in RatingDescriptions}

InitRating ==
    /\ Constructed(AllCredentials)
    /\ fin \in RatingInputs
    /\ fout = <<>>
    /\ fst = "in"

ApplyRating ==
    /\ fst = "in"
    /\ fout' = calculateRating(fin, clock)
    /\ fst' = "out"
    /\ UNCHANGED <<fin, sysvars>>

SpecRating == InitRating /\ [][ApplyRating]_vars

\* C5: the rating is at least 1.0, at most 5.0 and a multiple of 0.1
C5_ScoreBounds ==
    fst = "out" => (100 <= fout /\ fout <= 500 /\ fout % 10 = 0)

\* the bonuses of an article add up to more than 5.0 (X, fresh, both keyword
\* bonuses, both engagement bonuses) and the rating is 5.0
C5_Witness ==
    /\ fst = "out"
    /\ fin.apiSource = "X"
    /\ fin.publishedAt = 0
    /\ fin.title = TitleBreakingImportant
    /\ fin.metrics = Metrics(5000, 5001)
    /\ fout = 500

\* the weight of the provider: NewsAPI 0.3, Naver 0.5, X 0.7, any other 0
ProviderWeight(article) ==
    CASE article.apiSource = "NewsAPI" -> 30
      [] article.apiSource = "Naver" -> 50
      [] article.apiSource = "X" -> 70
      [] OTHER -> 0

\* the one recency bonus of the article's age; none for an unparseable timestamp
RecencyBonus(article, now) ==
    IF article.publishedAt = NaN THEN 0
    ELSE LET age == now - article.publishedAt
         IN  CASE age < 2 * 3600 -> 80
               [] age >= 2 * 3600 /\ age < 6 * 3600 -> 40
               [] age >= 6 * 3600 /\ age < 24 * 3600 -> 20
               [] OTHER -> 0

\* the text of the article holds one of the keywords
HoldsAny(article, keywords) == \E kw \in keywords : Includes(ArticleText(article), kw)

\* 0.5 when retweets + likes exceed 1000 and a further 0.8 when they exceed 10000
EngagementBonus(article) ==
    IF ~article.metrics.present
          \/ article.metrics.retweet_count = NaN \/ article.metrics.like_count = NaN
    THEN 0
    ELSE LET sum == article.metrics.retweet_count + article.metrics.like_count
         IN  CASE sum > 10000 -> 50 + 80
               [] sum > 1000 /\ sum <= 10000 -> 50
               [] OTHER -> 0

\* the sum of the base score and the bonuses, in hundredths
ScoreSum(article, now) ==
    300 + ProviderWeight(article) + RecencyBonus(article, now)
        + (IF HoldsAny(article, {KwBreaking, KwUrgent, KwGingeup}) THEN 100 ELSE 0)
        + (IF HoldsAny(article, {KwImportant, KwMajor, KwJungyo}) THEN 60 ELSE 0)
        + EngagementBonus(article)

\* C23: the rating is 3.0 plus the provider weight, plus one recency bonus,
\* plus 1.0 for an urgent keyword, plus 0.6 for an important keyword, plus
\* the engagement bonus, rounded to one decimal and then clamped to [1.0, 5.0]
C23_ScoreFormula ==
    fst = "out" =>
        LET sum == ScoreSum(fin, clock)
            rounded == IF sum % 10 >= 5 THEN (sum - (sum % 10)) + 10 ELSE sum - (sum % 10)
        IN  fout = (IF rounded > 500 THEN 500 ELSE IF rounded < 100 THEN 100 ELSE rounded)

\* a feed's article just under six hours old with the keyword major and 1001
\* retweets and likes: 3.0 + 0 + 0.4 + 0.6 + 0.5 = 4.5
C23_Witness ==
    /\ fst = "out"
    /\ fin.apiSource = "RSS"
    /\ clock - fin.publishedAt = 21599
    /\ fin.title = TitleMajor
    /\ fin.metrics = Metrics(500, 501)
    /\ fout = 450

----------------------------------------------------------------------------
(* generateTags on its own: fin is the article and the section, fout the tags *)

\* source names, three of them equal to a tag generateTags adds itself, and no name
TagSources == {"BBC", "gukje", "Hot", "banggeum", UndefS}

TagTitles == {TitlePlain, TitleBreaking, TitleBreakingImportant, TitleTrendingViral}

TagInputs ==
    {[article |-> RawArticle(title, UrlPrefix, source, "en", api, NoMetrics, date),
      section |-> section]
        : title \in TagTitles, source \in TagSources, api \in ApiSources,
          date \in {0, 0 - 7200}, section \in AllSections}

InitTags ==
    /\ Constructed(AllCredentials)
    /\ fin \in TagInputs
    /\ fout = <<>>
    /\ fst = "in"

ApplyTags ==
    /\ fst = "in"
    /\ fout' = generateTags(fin.article, fin.section, clock)
    /\ fst' = "out"
    /\ UNCHANGED <<fin, sysvars>>

SpecTags == InitTags /\ [][ApplyTags]_vars

\* C6: the tag list has at most 4 entries and no entry twice
C6_TagCap ==
    fst = "out" =>
        /\ Len(fout) <= 4
        /\ \A i, j \in 1..Len(fout) : fout[i] = fout[j] => i = j

\* an article whose source name equals its section tag and whose text and age
\* earn more tags than four: the list is cut and the repeated tag appears once
C6_Witness ==
    /\ fst = "out"
    /\ fin.article.source = "gukje"
    /\ fin.section = "world"
    /\ fin.article.title = TitleBreakingImportant
    /\ fin.article.publishedAt = 0
    /\ fout = <<"gukje", "haeoe", "gingeup", "jungyo">>

\* the tags generateTags pushes before it looks at the age: the source name,
\* the section's tag, the provider's tag and the keyword tags
EarlierTags(article, section) ==
    {article.source}
    \cup Range(SectionTag(section))
    \cup (CASE article.apiSource = "X" -> {"silsigan"}
            [] article.apiSource = "NewsAPI" -> {"haeoe"}
            [] article.apiSource = "Naver" -> {"gungnae"}
            [] OTHER -> {})
    \cup (IF HoldsAny(article, {KwBreaking, KwGingeup}) THEN {"gingeup"} ELSE {})
    \cup (IF HoldsAny(article, {KwImportant, KwJungyo}) THEN {"jungyo"} ELSE {})
    \cup (IF HoldsAny(article, {KwTrending, KwViral}) THEN {"Hot"} ELSE {})

\* C24 as stated: every article whose age is under 2 hours carries the tag
\* "just now" (banggeum) in its tag list
C24_JustNowAlways ==
    fst = "out" =>
        (AgeBelowHours(fin.article, clock, 2) => "banggeum" \in Range(fout))

\* C24 amended: an article whose age is under 2 hours carries the tag "just
\* now" exactly when fewer than 4 different tags come before it (source name,
\* section tag, provider tag, keyword tags), and then as its last tag; the cap
\* of 4 cuts it otherwise.  An article that is not under 2 hours old carries it
\* only as its source name
C24_JustNowIfRoom ==
    fst = "out" =>
        LET earlier == EarlierTags(fin.article, fin.section)
        IN  IF "banggeum" \in earlier
            THEN fin.article.source = "banggeum" /\ fout[1] = "banggeum"
            ELSE IF AgeBelowHours(fin.article, clock, 2) /\ Cardinality(earlier) < 4
            THEN Len(fout) = Cardinality(earlier) + 1 /\ fout[Len(fout)] = "banggeum"
            ELSE "banggeum" \notin Range(fout)

\* a NewsAPI article of BBC for world, published now, without keywords: three
\* tags come first and the tag "just now" is the fourth
C24_Witness ==
    /\ fst = "out"
    /\ AgeBelowHours(fin.article, clock, 2)
    /\ fout = <<"BBC", "gukje", "haeoe", "banggeum">>

----------------------------------------------------------------------------
(* The cache gateway on its own: fin is the key and the articles of the    *)
(* cacheNews calls, fout the last write and the last read of the key       *)

\* clock steps of half a TTL in one behaviour of SpecCache
MaxCacheTicks == 3

HalfTtl == CACHE_TTL \div 2

\* articles as processArticles hands them to cacheNews: one of NewsAPI, one of X
\* with metrics, one without a source name (its first tag is undefined), one
\* without a description
CacheRawArticles ==
    {GoodArticle(Adapter("NewsAPI", "general")),
     GoodArticle(Adapter("X", "recent")),
     [GoodArticle(Adapter("RSS", "BBC")) EXCEPT !.source = UndefS],
     [GoodArticle(Adapter("Naver", "news")) EXCEPT !.description = UndefV]}

CacheArticleLists ==
    {processArticles(WithPos(raw), "world", 0).val
        : raw \in UNION {[1..n -> CacheRawArticles] : n \in 0..2}}

CacheInputs ==
    {[key |-> CacheKey(section), articles |-> articles]
        : section \in {"world", "buzz"}, articles \in CacheArticleLists}

NothingYet ==
    [writtenAt |-> NaN, hasRead |-> FALSE, read |-> NullResult, readAt |-> NaN]

InitCache ==
    /\ Constructed(AllCredentials)
    /\ fin \in CacheInputs
    /\ fout = NothingYet
    /\ fst = "idle"

\* cacheNews(fin.key, fin.articles), served at once
CachePut ==
    /\ cache' = cacheNews(cache, fin.key, fin.articles, ClientOpen(backend), backend)
    /\ fout' = IF ClientOpen(backend) THEN [fout EXCEPT !.writtenAt = clock] ELSE fout
    /\ fst' = "put"
    /\ UNCHANGED <<fin, backend, clock, apis, isUpdating, cycles, clients, lastResp,
                   requests, deliveries, fired, dropped, lastCycle>>

\* getCachedNews(fin.key), served at once
CacheGet ==
    /\ fout' = [fout EXCEPT !.hasRead = TRUE, !.readAt = clock,
                            !.read = getCachedNews(cache, fin.key, ClientOpen(backend),
                                                   backend)]
    /\ fst' = IF backend = "open" THEN "got" ELSE "gotClosed"
    /\ UNCHANGED <<fin, sysvars>>

NextCache ==
    \/ CachePut
    \/ CacheGet
    \/ Tick(HalfTtl, MaxCacheTicks)
    \/ \E be \in BackendStates : BackendChange(be)

SpecCache == InitCache /\ [][NextCache]_vars

\* what JSON keeps of an article sequence: two sequences are equivalent when
\* they serialise alike
Equivalent(a, b) == JsonStringify(a) = JsonStringify(b)

\* C7: with the backend available, a read that follows a write of the key at once
\* returns a sequence equivalent to the one written; an entry written t seconds
\* ago has 600 - t seconds left; a read 600 seconds or more after the last
\* write, or with no write before it, returns null
C7_RoundTrip ==
    /\ (fst = "got" /\ fout.writtenAt # NaN /\ fout.readAt = fout.writtenAt) =>
            /\ ~fout.read.null
            /\ Equivalent(fout.read.val, fin.articles)
    /\ cache[fin.key].present =>
            /\ fout.writtenAt # NaN
            /\ cache[fin.key].ttl = CACHE_TTL - (clock - fout.writtenAt)
            /\ cache[fin.key].ttl > 0
    /\ (fout.hasRead /\ fout.writtenAt = NaN) => fout.read.null
    /\ (fout.hasRead /\ fout.writtenAt # NaN
            /\ fout.readAt - fout.writtenAt >= CACHE_TTL) => fout.read.null

\* two articles, one of them without a source name, were written and read back
\* at once, and the one's undefined tag has come back as null
C7_Witness ==
    /\ fst = "got"
    /\ fout.readAt = fout.writtenAt
    /\ Len(fin.articles) = 2
    /\ \E i \in 1..2 : fin.articles[i].tags[1] = UndefS /\ fout.read.val[i].tags[1] = NullS

====
